---------------------------- MODULE Spec2Model ----------------------------
(***************************************************************************)
(* A model of the custom-elements polyfill core: the definition registry   *)
(* (CustomElementRegistry.ts), the upgrade engine and reaction dispatcher  *)
(* (CustomElementInternals.ts) and the tree walker (Utilities.ts).         *)
(*                                                                         *)
(* Every public entry point is one action.  User code that the engine      *)
(* calls synchronously (constructors, prototype getters, reactions) runs   *)
(* inside the action that called it, so a re-entrant define or a nested    *)
(* flush is part of the enclosing action.  The engine's mutable state is   *)
(* threaded through the operators as a record ("store").                   *)
(***************************************************************************)
EXTENDS Naturals, Integers, Sequences, FiniteSets, TLC

(***************************************************************************)
(* Tag names are sequences of characters, so that the name grammar is      *)
(* computed, not assumed.                                                  *)
(***************************************************************************)
Lower == {"a", "b", "c", "d", "e", "f", "g", "h", "i", "j", "k", "l", "m",
          "n", "o", "p", "q", "r", "s", "t", "u", "v", "w", "x", "y", "z"}
Digit == {"0", "1", "2", "3", "4", "5", "6", "7", "8", "9"}
\* the class [.0-9_a-z] of the grammar
HeadChars == Lower \cup Digit \cup {".", "_"}
\* the class [\-.0-9_a-z] of the grammar
TailChars == HeadChars \cup {"-"}

XA == <<"x", "-", "a">>
XB == <<"x", "-", "b">>
XC == <<"x", "-", "c">>
DIV == <<"d", "i", "v">>
UPPER == <<"X", "-", "a">>
DASHFIRST == <<"-", "a">>
FONTFACE == <<"f", "o", "n", "t", "-", "f", "a", "c", "e">>
TEMPLATE == <<"t", "e", "m", "p", "l", "a", "t", "e">>
LINK == <<"l", "i", "n", "k">>

reservedTagList ==
  { <<"a", "n", "n", "o", "t", "a", "t", "i", "o", "n", "-", "x", "m", "l">>,
    <<"c", "o", "l", "o", "r", "-", "p", "r", "o", "f", "i", "l", "e">>,
    FONTFACE,
    <<"f", "o", "n", "t", "-", "f", "a", "c", "e", "-", "s", "r", "c">>,
    <<"f", "o", "n", "t", "-", "f", "a", "c", "e", "-", "u", "r", "i">>,
    <<"f", "o", "n", "t", "-", "f", "a", "c", "e", "-", "f", "o", "r", "m", "a", "t">>,
    <<"f", "o", "n", "t", "-", "f", "a", "c", "e", "-", "n", "a", "m", "e">>,
    <<"m", "i", "s", "s", "i", "n", "g", "-", "g", "l", "y", "p", "h">> }

\* /^[a-z][.0-9_a-z]*-[\-.0-9_a-z]*$/ : a lower-case letter, then
\* [.0-9_a-z]* up to some hyphen at position k, then [\-.0-9_a-z]*.
validForm(localName) ==
  /\ Len(localName) >= 2
  /\ localName[1] \in Lower
  /\ \E k \in 2..Len(localName) :
        /\ localName[k] = "-"
        /\ \A i \in 2..(k - 1) : localName[i] \in HeadChars
        /\ \A i \in (k + 1)..Len(localName) : localName[i] \in TailChars

\* A faulty variant: the reserved names are not excluded.
isValidCustomElementName_NoReserved(localName) ==
  validForm(localName)

isValidCustomElementName(localName) ==
  LET reserved == localName \in reservedTagList
  IN  ~reserved /\ validForm(localName)

\* The tag names given to define, get and whenDefined.
Names == {XA, XB, XC, DIV, UPPER, DASHFIRST, FONTFACE}


(***************************************************************************)
(* The DOM the engine runs against.  The engine only reads it: node type,  *)
(* local name, child lists, attributes, shadow roots, import links, owner  *)
(* documents.  A tree is a record of functions over Nodes; NoNode is null. *)
(***************************************************************************)
NoNode == 0
Nodes == 1..16
AttrNames == {"a", "b", "c"}

BlankDom ==
  [ nodeType      |-> [n \in Nodes |-> "element"],
    localName     |-> [n \in Nodes |-> DIV],
    children      |-> [n \in Nodes |-> << >>],
    attrs         |-> [n \in Nodes |-> {}],
    shadowRoot    |-> [n \in Nodes |-> NoNode],
    host          |-> [n \in Nodes |-> NoNode],
    relImport     |-> [n \in Nodes |-> FALSE],
    import        |-> [n \in Nodes |-> NoNode],
    readyState    |-> [n \in Nodes |-> "complete"],
    pendingImport |-> [n \in Nodes |-> NoNode],
    loadEventDue  |-> [n \in Nodes |-> FALSE],
    ownerDocument |-> [n \in Nodes |-> 1],
    defaultView   |-> [n \in Nodes |-> FALSE],
    nativeIsConnected |-> TRUE,
    hasPatches    |-> TRUE ]

\* A page with interleaved x-a and x-b elements, a text node, a template
\* holding an x-a and a shadow tree on an x-b.  Element patches have been
\* added to the internals.  Nodes 12 to 16 are not part of it.
\*   1 #document
\*   +- 2 div
\*      +- 3 x-b [a c]
\*      +- 4 #text
\*      +- 5 x-a [a b]
\*      |  +- 9 x-a [b c]
\*      +- 6 template
\*      |  +- 7 x-a
\*      +- 8 x-b          (shadow root 10)
\*         #shadow 10
\*         +- 11 x-a [a]
DomPage ==
  [ BlankDom EXCEPT
      !.nodeType = [n \in Nodes |->
                      CASE n = 1 -> "document"
                        [] n = 4 -> "text"
                        [] n = 10 -> "fragment"
                        [] n \in 12..16 -> "absent"
                        [] OTHER -> "element"],
      !.localName = [n \in Nodes |->
                      CASE n \in {5, 7, 9, 11} -> XA
                        [] n \in {3, 8} -> XB
                        [] n = 6 -> TEMPLATE
                        [] OTHER -> DIV],
      !.children = [n \in Nodes |->
                      CASE n = 1 -> <<2>>
                        [] n = 2 -> <<3, 4, 5, 6, 8>>
                        [] n = 5 -> <<9>>
                        [] n = 6 -> <<7>>
                        [] n = 10 -> <<11>>
                        [] OTHER -> << >>],
      !.attrs = [n \in Nodes |->
                      CASE n = 11 -> {"a"}
                        [] n = 3 -> {"a", "c"}
                        [] n = 5 -> {"a", "b"}
                        [] n = 9 -> {"b", "c"}
                        [] OTHER -> {}],
      !.shadowRoot = [n \in Nodes |-> IF n = 8 THEN 10 ELSE NoNode],
      !.host = [n \in Nodes |-> IF n = 10 THEN 8 ELSE NoNode],
      !.defaultView = [n \in Nodes |-> n = 1] ]

\* A page with HTML imports as the imports polyfill builds them: the import
\* root is an element below the link, two links share one import, and one
\* link is not an import.  The browser has no native Node#isConnected, and
\* no node or element patch has been added to the internals.
\*   1 #document
\*   +- 2 div
\*      +- 3 link rel=import  (import 5)
\*      |  +- 5 div (import root)
\*      |     +- 6 x-a [a]
\*      |        +- 7 x-b
\*      +- 4 link rel=import  (import 5)
\*      +- 8 x-b [b c]
\*      +- 9 link
\*         +- 10 x-a
\*   11 div (detached)
\*   +- 12 template
\*   |  +- 13 x-b
\*   +- 14 x-a [b a]
\*   16 x-a [a] (detached, owned by document 15, which has no view)
DomImports ==
  [ BlankDom EXCEPT
      !.nodeType = [n \in Nodes |->
                      IF n \in {1, 15} THEN "document" ELSE "element"],
      !.localName = [n \in Nodes |->
                      CASE n \in {6, 10, 14, 16} -> XA
                        [] n \in {7, 8, 13} -> XB
                        [] n \in {3, 4, 9} -> LINK
                        [] n = 12 -> TEMPLATE
                        [] OTHER -> DIV],
      !.children = [n \in Nodes |->
                      CASE n = 1 -> <<2>>
                        [] n = 2 -> <<3, 4, 8, 9>>
                        [] n = 3 -> <<5>>
                        [] n = 5 -> <<6>>
                        [] n = 6 -> <<7>>
                        [] n = 9 -> <<10>>
                        [] n = 11 -> <<12, 14>>
                        [] n = 12 -> <<13>>
                        [] OTHER -> << >>],
      !.attrs = [n \in Nodes |->
                      CASE n \in {6, 16} -> {"a"}
                        [] n = 8 -> {"b", "c"}
                        [] n = 14 -> {"a", "b"}
                        [] OTHER -> {}],
      !.relImport = [n \in Nodes |-> n \in {3, 4}],
      !.import = [n \in Nodes |-> IF n \in {3, 4} THEN 5 ELSE NoNode],
      !.ownerDocument = [n \in Nodes |-> IF n \in {15, 16} THEN 15 ELSE 1],
      !.defaultView = [n \in Nodes |-> n = 1],
      !.nativeIsConnected = FALSE,
      !.hasPatches = FALSE ]

\* A page whose imports are still loading.  Links 3 and 4 share import 5,
\* which the browser hands out while it loads (readyState "loading"); link 7
\* hands out its import root 8 only once it has loaded.  pendingImport is the
\* import a link is waiting for; loadEventDue is set on a link whose import
\* has loaded and whose 'load' event has not been dispatched yet.
\*   1 #document
\*   +- 2 div
\*      +- 3 link rel=import  (import 5, loading)
\*      |  +- 5 div (import root)
\*      |     +- 6 x-a [a]
\*      +- 4 link rel=import  (import 5, loading)
\*      +- 7 link rel=import  (no import yet; 8 once loaded)
\*      |  +- 8 div (import root)
\*      |     +- 9 x-b
\*      +- 10 x-a [b]
DomLoading ==
  [ BlankDom EXCEPT
      !.nodeType = [n \in Nodes |->
                      CASE n = 1 -> "document"
                        [] n \in 11..16 -> "absent"
                        [] OTHER -> "element"],
      !.localName = [n \in Nodes |->
                      CASE n \in {6, 10} -> XA
                        [] n = 9 -> XB
                        [] n \in {3, 4, 7} -> LINK
                        [] OTHER -> DIV],
      !.children = [n \in Nodes |->
                      CASE n = 1 -> <<2>>
                        [] n = 2 -> <<3, 4, 7, 10>>
                        [] n = 3 -> <<5>>
                        [] n = 5 -> <<6>>
                        [] n = 7 -> <<8>>
                        [] n = 8 -> <<9>>
                        [] OTHER -> << >>],
      !.attrs = [n \in Nodes |->
                      CASE n = 6 -> {"a"}
                        [] n = 10 -> {"b"}
                        [] OTHER -> {}],
      !.relImport = [n \in Nodes |-> n \in {3, 4, 7}],
      !.import = [n \in Nodes |-> IF n \in {3, 4} THEN 5 ELSE NoNode],
      !.readyState = [n \in Nodes |-> IF n \in {5, 8} THEN "loading" ELSE "complete"],
      !.pendingImport = [n \in Nodes |->
                           CASE n \in {3, 4} -> 5 [] n = 7 -> 8 [] OTHER -> NoNode],
      !.defaultView = [n \in Nodes |-> n = 1],
      !.nativeIsConnected = FALSE,
      !.hasPatches = FALSE ]

Doms == {DomPage, DomImports}

VARIABLE dom

\* Node#parentNode
parentNode(n) ==
  LET ps == {p \in Nodes : \E i \in 1..Len(dom.children[p]) : dom.children[p][i] = n}
  IN  IF ps = {} THEN NoNode ELSE CHOOSE p \in ps : TRUE

\* Node#firstChild
firstChild(n) ==
  IF dom.children[n] = << >> THEN NoNode ELSE dom.children[n][1]

\* Node#nextSibling
nextSibling(n) ==
  LET p == parentNode(n)
  IN  IF p = NoNode THEN NoNode
      ELSE LET i == CHOOSE j \in 1..Len(dom.children[p]) : dom.children[p][j] = n
           IN  IF i < Len(dom.children[p]) THEN dom.children[p][i + 1] ELSE NoNode

\* element.localName === 'link' && element.getAttribute('rel') === 'import'
isImportLink(element) ==
  dom.localName[element] = LINK /\ dom.relImport[element]

(***************************************************************************)
(* Utilities.ts: the tree walker.                                          *)
(***************************************************************************)
\* A faulty variant: the climb does not stop at the root of the walk.
RECURSIVE nextSiblingOrAncestorSibling_PastRoot(_, _)
nextSiblingOrAncestorSibling_PastRoot(root, start) ==
  IF start /= NoNode /\ nextSibling(start) = NoNode
  THEN nextSiblingOrAncestorSibling_PastRoot(root, parentNode(start))
  ELSE IF start = NoNode THEN NoNode ELSE nextSibling(start)

RECURSIVE nextSiblingOrAncestorSibling(_, _)
nextSiblingOrAncestorSibling(root, start) ==
  LET node == start
  IN  IF node /= NoNode /\ node /= root /\ nextSibling(node) = NoNode
      THEN nextSiblingOrAncestorSibling(root, parentNode(node))
      ELSE IF node = NoNode \/ node = root THEN NoNode ELSE nextSibling(node)

nextNode(root, start) ==
  IF firstChild(start) /= NoNode THEN firstChild(start)
  ELSE nextSiblingOrAncestorSibling(root, start)

\* The walk does not depend on what the callback does (no callback of the
\* engine changes the tree or the import links), so it is computed as the
\* sequence of elements handed to the callback, in call order, together with
\* the visitedImports set as the walk leaves it.  walkLoop is the while loop
\* from `node`; walkChildren is the for loop over an import's or a shadow
\* root's children.
RECURSIVE walkLoop(_, _, _, _)
RECURSIVE walkChildren(_, _, _)
walkDeepDescendantElements(root, elements, visitedImports) ==
  walkLoop(root, root, elements, visitedImports)

\* The walk goes on from `node` with what a nested walk r has left.
walkOn(root, node, r) == walkLoop(root, node, r.elements, r.visitedImports)

walkChildrenOn(child, r) == walkChildren(nextSibling(child), r.elements, r.visitedImports)

walkChildren(child, elements, visitedImports) ==
  IF child = NoNode
  THEN [elements |-> elements, visitedImports |-> visitedImports]
  ELSE walkChildrenOn(child, walkDeepDescendantElements(child, elements, visitedImports))

\* A faulty variant: the walk goes into the descendants of a template.
walkLoop_TemplatesWalked(root, node, elements, visitedImports) ==
  IF node = NoNode
  THEN [elements |-> elements, visitedImports |-> visitedImports]
  ELSE IF dom.nodeType[node] = "element"
  THEN IF isImportLink(node)
       THEN walkOn(root, nextSiblingOrAncestorSibling(root, node),
                   IF dom.import[node] /= NoNode /\ dom.import[node] \notin visitedImports
                   THEN walkChildren(firstChild(dom.import[node]), Append(elements, node),
                                     visitedImports \cup {dom.import[node]})
                   ELSE [elements |-> Append(elements, node),
                         visitedImports |-> visitedImports])
       ELSE walkOn(root, nextNode(root, node),
                   IF dom.shadowRoot[node] /= NoNode
                   THEN walkChildren(firstChild(dom.shadowRoot[node]),
                                     Append(elements, node), visitedImports)
                   ELSE [elements |-> Append(elements, node),
                         visitedImports |-> visitedImports])
  ELSE walkLoop(root, nextNode(root, node), elements, visitedImports)

walkLoop(root, node, elements, visitedImports) ==
  IF node = NoNode
  THEN [elements |-> elements, visitedImports |-> visitedImports]
  ELSE IF dom.nodeType[node] = "element"
  THEN IF isImportLink(node)
       THEN walkOn(root, nextSiblingOrAncestorSibling(root, node),
                   IF dom.import[node] /= NoNode /\ dom.import[node] \notin visitedImports
                   THEN walkChildren(firstChild(dom.import[node]), Append(elements, node),
                                     visitedImports \cup {dom.import[node]})
                   ELSE [elements |-> Append(elements, node),
                         visitedImports |-> visitedImports])
       ELSE IF dom.localName[node] = TEMPLATE
       THEN walkLoop(root, nextSiblingOrAncestorSibling(root, node),
                     Append(elements, node), visitedImports)
       ELSE walkOn(root, nextNode(root, node),
                   IF dom.shadowRoot[node] /= NoNode
                   THEN walkChildren(firstChild(dom.shadowRoot[node]),
                                     Append(elements, node), visitedImports)
                   ELSE [elements |-> Append(elements, node),
                         visitedImports |-> visitedImports])
  ELSE walkLoop(root, nextNode(root, node), elements, visitedImports)


(***************************************************************************)
(* User code.  A constructor value handed to define is one of Ctors; what  *)
(* the engine can observe of it is tabulated by CtorInfo: whether it is a  *)
(* function, whether its prototype is an object, what each lifecycle       *)
(* property of the prototype holds ("undefined", "function", or "number",  *)
(* a value that is present but not callable), its observedAttributes, a    *)
(* prototype getter that itself calls define, and what the constructor     *)
(* body does before it reaches the HTMLElement constructor.                *)
(***************************************************************************)
Undefined == << >>
CallbackNames == {"connectedCallback", "disconnectedCallback",
                  "adoptedCallback", "attributeChangedCallback"}
NoCallbacks == [cb \in CallbackNames |-> "undefined"]
AllCallbacks == [cb \in CallbackNames |-> "function"]

PlainCtor ==
  [ isFunction |-> TRUE, prototypeIsObject |-> TRUE, prototype |-> NoCallbacks,
    observedAttributes |-> << >>, getterDefines |-> Undefined,
    bodyDefines |-> Undefined ]

Ctors == {"NotAFunction", "NoPrototype", "Full", "Bare", "BadConnected",
          "BadAttributeChanged", "Redefiner", "GetterDefiner"}

CtorInfo(c) ==
  CASE c = "NotAFunction" -> [PlainCtor EXCEPT !.isFunction = FALSE]
    [] c = "NoPrototype" -> [PlainCtor EXCEPT !.prototypeIsObject = FALSE]
    [] c = "Full" -> [PlainCtor EXCEPT !.prototype = AllCallbacks,
                                       !.observedAttributes = <<"b", "a">>]
    [] c = "Bare" -> [PlainCtor EXCEPT !.observedAttributes = <<"a">>]
    [] c = "BadConnected" ->
         [PlainCtor EXCEPT !.prototype = [AllCallbacks EXCEPT !["connectedCallback"] = "number"]]
    [] c = "BadAttributeChanged" ->
         [PlainCtor EXCEPT !.prototype = [NoCallbacks EXCEPT !["attributeChangedCallback"] = "number"],
                           !.observedAttributes = <<"a">>]
    \* constructor() { if (!customElements.get('x-b'))
    \*                   customElements.define('x-b', Bare); super(); }
    [] c = "Redefiner" ->
         [PlainCtor EXCEPT !.prototype = [NoCallbacks EXCEPT !["connectedCallback"] = "function"],
                           !.bodyDefines = XB]
    \* get connectedCallback() { try { customElements.define('x-c', Bare) }
    \*                           catch (e) {} return function () {} }
    [] c = "GetterDefiner" ->
         [PlainCtor EXCEPT !.prototype = [NoCallbacks EXCEPT !["connectedCallback"] = "function"],
                           !.getterDefines = XC]

(***************************************************************************)
(* The state.  Registry: CustomElementRegistry's fields.  Internals:       *)
(* CustomElementInternals' fields.  Per node: the __CE_ properties of      *)
(* Externs.  A call's own record of what it did (log, exc) lives in the    *)
(* store record only.                                                      *)
(***************************************************************************)
VARIABLES
  elementDefinitionIsRunning,  \* CustomElementRegistry._elementDefinitionIsRunning
  whenDefinedDeferred,         \* _whenDefinedDeferred: name -> "pending" | "resolved"
  flushCallback,               \* _flushCallback: the wrappers around fn => fn(), innermost first
  flushPending,                \* _flushPending
  pendingDefinitions,          \* _pendingDefinitions, as local names
  localNameToDefinition,       \* CustomElementInternals._localNameToDefinition
  constructorToDefinition,     \* _constructorToDefinition: constructor -> local name of the definition
  hasPatches,                  \* _hasPatches
  CE_state,                    \* element.__CE_state: "undefined" | "custom" | "failed"
  CE_definition,               \* element.__CE_definition, as the definition's local name
  CE_patched,                  \* node.__CE_patched
  CE_isImportDocument,         \* node.__CE_isImportDocument
  CE_hasRegistry,              \* node.__CE_hasRegistry
  CE_documentLoadHandled,      \* node.__CE_documentLoadHandled
  loadListeners,               \* 'load' listeners patchAndUpgradeTree added to import links
  deferredFlush,               \* the flush triggers a deferring flush callback holds, by wrapper depth
  ctorThrows,                  \* user code: elements on which the user constructor throws
  ctorMismatch,                \* user code: elements for which it returns another object
  callbackCalls,               \* flush-callback invocations since the flush body last started
  maxCallbackCalls             \* the largest value callbackCalls has had

vars == << dom, elementDefinitionIsRunning, whenDefinedDeferred, flushCallback,
           flushPending, pendingDefinitions, localNameToDefinition,
           constructorToDefinition, hasPatches, CE_state, CE_definition,
           CE_patched, CE_isImportDocument, CE_hasRegistry,
           CE_documentLoadHandled, loadListeners, deferredFlush, ctorThrows,
           ctorMismatch, callbackCalls, maxCallbackCalls >>

\* The mutable state as one record, threaded through the engine's operators.
\* log is what the call has done so far, in order; exc is the exception in
\* flight ("none" when there is none).
Store ==
  [ elementDefinitionIsRunning |-> elementDefinitionIsRunning,
    whenDefinedDeferred |-> whenDefinedDeferred,
    flushCallback |-> flushCallback,
    flushPending |-> flushPending,
    pendingDefinitions |-> pendingDefinitions,
    localNameToDefinition |-> localNameToDefinition,
    constructorToDefinition |-> constructorToDefinition,
    hasPatches |-> hasPatches,
    CE_state |-> CE_state,
    CE_definition |-> CE_definition,
    CE_patched |-> CE_patched,
    CE_isImportDocument |-> CE_isImportDocument,
    CE_hasRegistry |-> CE_hasRegistry,
    CE_documentLoadHandled |-> CE_documentLoadHandled,
    loadListeners |-> loadListeners,
    deferredFlush |-> deferredFlush,
    log |-> << >>,
    callbackCalls |-> callbackCalls,
    maxCallbackCalls |-> maxCallbackCalls,
    exc |-> "none" ]

Event(kind, el, name, state) ==
  [kind |-> kind, el |-> el, name |-> name, state |-> state]

Logged(s, kind, el, name) ==
  [s EXCEPT !.log = Append(@, Event(kind, el, name,
                                    IF el \in Nodes THEN s.CE_state[el] ELSE "undefined"))]

Throw(s, e) == [s EXCEPT !.exc = e]


(***************************************************************************)
(* CustomElementInternals.ts                                               *)
(***************************************************************************)
\* Whether localNameToDefinition(localName) is a definition (not undefined).
hasDefinition(s, localName) == localName \in DOMAIN s.localNameToDefinition

\* localNameToDefinition(localName), for a name that has one.
getDefinition(s, localName) == s.localNameToDefinition[localName]

setDefinition(s, localName, definition) ==
  [s EXCEPT
     !.localNameToDefinition =
        [n \in (DOMAIN @) \cup {localName} |->
           IF n = localName THEN definition ELSE @[n]],
     !.constructorToDefinition =
        [c \in (DOMAIN @) \cup {definition.constructorFunction} |->
           IF c = definition.constructorFunction THEN definition.localName ELSE @[c]]]

\* The patches themselves are the DOM-patch collaborators'; what the engine
\* decides is whether they run on the element.
\* A faulty variant: the patched flag is set and never read.
patchElement_FlagNotRead(s, element) ==
  IF ~s.hasPatches THEN s
  ELSE Logged([s EXCEPT !.CE_patched[element] = TRUE], "patch", element, Undefined)

patchElement(s, element) ==
  IF ~s.hasPatches THEN s
  ELSE IF s.CE_patched[element] THEN s
  ELSE Logged([s EXCEPT !.CE_patched[element] = TRUE], "patch", element, Undefined)

\* Node#isConnected as the browser computes it: the shadow-including root
\* is a document.
RECURSIVE nativeIsConnected(_)
nativeIsConnected(node) ==
  IF dom.nodeType[node] = "document" THEN TRUE
  ELSE IF parentNode(node) /= NoNode THEN nativeIsConnected(parentNode(node))
  ELSE IF dom.host[node] /= NoNode THEN nativeIsConnected(dom.host[node])
  ELSE FALSE

\* The loop of Utilities.isConnected, from `current`.
RECURSIVE isConnectedLoop(_, _)
isConnectedLoop(s, current) ==
  IF current /= NoNode
     /\ ~(s.CE_isImportDocument[current] \/ dom.nodeType[current] = "document")
  THEN isConnectedLoop(s, IF parentNode(current) /= NoNode THEN parentNode(current)
                          ELSE IF dom.nodeType[current] = "fragment"
                               THEN dom.host[current] ELSE NoNode)
  ELSE current /= NoNode
       /\ (s.CE_isImportDocument[current] \/ dom.nodeType[current] = "document")

isConnected(s, node) ==
  IF dom.nativeIsConnected THEN nativeIsConnected(node)
  ELSE isConnectedLoop(s, node)

\* The reaction dispatcher.  A reaction is user code; the model records the
\* call (with the element's state at that moment).
connectedCallback(s, element) ==
  LET definition == getDefinition(s, s.CE_definition[element])
  IN  IF definition.connectedCallback
      THEN Logged(s, "connectedCallback", element, Undefined)
      ELSE s

disconnectedCallback(s, element) ==
  LET definition == getDefinition(s, s.CE_definition[element])
  IN  IF definition.disconnectedCallback
      THEN Logged(s, "disconnectedCallback", element, Undefined)
      ELSE s

indexOf(seq, x) ==
  IF \E i \in 1..Len(seq) : seq[i] = x
  THEN (CHOOSE i \in 1..Len(seq) : seq[i] = x /\ \A j \in 1..(i - 1) : seq[j] /= x) - 1
  ELSE -1

\* A faulty variant: the observed-attribute list is not consulted.
attributeChangedCallback_Unfiltered(s, element, name) ==
  IF getDefinition(s, s.CE_definition[element]).attributeChangedCallback
  THEN Logged(s, "attributeChangedCallback", element, name)
  ELSE s

attributeChangedCallback(s, element, name) ==
  LET definition == getDefinition(s, s.CE_definition[element])
  IN  IF definition.attributeChangedCallback
         /\ indexOf(definition.observedAttributes, name) > -1
      THEN Logged(s, "attributeChangedCallback", element, name)
      ELSE s

\* element.getAttribute(name) !== null
hasAttribute(element, name) == name \in dom.attrs[element]

\* A faulty variant: the observed attributes are gone through backwards.
RECURSIVE upgradeAttributes_Reversed(_, _, _, _)
upgradeAttributes_Reversed(s, element, observedAttributes, i) ==
  IF i > Len(observedAttributes) THEN s
  ELSE LET name == observedAttributes[Len(observedAttributes) + 1 - i]
           s1 == IF name \in dom.attrs[element]
                 THEN attributeChangedCallback(s, element, name)
                 ELSE s
       IN  upgradeAttributes_Reversed(s1, element, observedAttributes, i + 1)

\* upgradeElement, lines 297-306: the observed-attribute loop from index i
\* (1-based).
RECURSIVE upgradeAttributes(_, _, _, _)
upgradeAttributes(s, element, observedAttributes, i) ==
  IF i > Len(observedAttributes) THEN s
  ELSE LET name == observedAttributes[i]
           s1 == IF hasAttribute(element, name)
                 THEN attributeChangedCallback(s, element, name)
                 ELSE s
       IN  upgradeAttributes(s1, element, observedAttributes, i + 1)

\* gatherElements of patchAndUpgradeTree, applied to the elements the walk
\* hands it, from index i.  r is [s, elements]; visitedImports is the set the
\* listeners close over (the walk's own, complete when a load event can fire).
RECURSIVE gatherElements(_, _, _, _, _)
gatherElements(r, walked, i, visitedImports, upgrade) ==
  IF i > Len(walked) THEN r
  ELSE LET element == walked[i]
           s == r.s
       IN  IF isImportLink(element)
           THEN LET importNode == dom.import[element]
                    s1 == IF importNode /= NoNode
                          THEN [s EXCEPT !.CE_isImportDocument[importNode] = TRUE,
                                         !.CE_hasRegistry[importNode] = TRUE]
                          ELSE s
                    s2 == IF importNode /= NoNode /\ dom.readyState[importNode] = "complete"
                          THEN [s1 EXCEPT !.CE_documentLoadHandled[importNode] = TRUE]
                          ELSE [s1 EXCEPT !.loadListeners =
                                   Append(@, [link |-> element,
                                              visitedImports |-> visitedImports,
                                              upgrade |-> upgrade])]
                IN  gatherElements([r EXCEPT !.s = s2], walked, i + 1,
                                   visitedImports, upgrade)
           ELSE gatherElements([r EXCEPT !.elements = Append(@, element)],
                               walked, i + 1, visitedImports, upgrade)

RECURSIVE patchElements(_, _, _)
patchElements(s, elements, i) ==
  IF i > Len(elements) THEN s
  ELSE patchElements(patchElement(s, elements[i]), elements, i + 1)

\* patchTree(node) (lines 49-55).
patchTree(s, node) ==
  IF ~s.hasPatches THEN s
  ELSE patchElements(s, walkDeepDescendantElements(node, << >>, {}).elements, 1)

\* addElementPatch(patch) (lines 44-47): the patch itself is the DOM-patch
\* collaborators'.
addElementPatch(s) == [s EXCEPT !.hasPatches = TRUE]

\* gatherElements applied to what the walk w hands it.
gatherWalked(s, w, upgrade) ==
  gatherElements([s |-> s, elements |-> << >>], w.elements, 1, w.visitedImports, upgrade)

\* if (this._hasPatches) patch every gathered element (lines 240-244); g is
\* [s, elements].
patchGathered(g) ==
  [g EXCEPT !.s = IF g.s.hasPatches THEN patchElements(g.s, g.elements, 1) ELSE g.s]

\* patchAndUpgradeTree up to its upgrade loop (lines 187-244): the walk, the
\* gathering and the patching.  Returns [s, elements].
gatherAndPatch(s, root, visitedImports, upgrade) ==
  patchGathered(
    gatherWalked(s, walkDeepDescendantElements(root, << >>, visitedImports), upgrade))


(***************************************************************************)
(* The engine proper.  upgradeElement runs the user's constructor, which   *)
(* may call define, which may run the flush, which upgrades elements: the  *)
(* operators below are mutually recursive as the code is re-entrant.       *)
(***************************************************************************)
\* The `document` global.
Document == 1

RECURSIVE upgradeElement(_, _)
RECURSIVE define(_, _, _)
RECURSIVE flush(_)
RECURSIVE upgradeElements(_, _, _)
RECURSIVE drainPendingDefinitions(_, _)

\* What `new constructor()` hands back once the constructor's body has run
\* (s is the store it leaves): [s, result].
constructed(s, element) ==
  IF s.exc /= "none" THEN [s |-> s, result |-> NoNode]
  ELSE IF element \in ctorThrows
  THEN [s |-> Throw(s, "UserError"), result |-> NoNode]
  ELSE IF element \in ctorMismatch
  THEN [s |-> s, result |-> NoNode]
  ELSE [s |-> s, result |-> element]

\* `new constructor()` at upgradeElement line 281.  The user's constructor
\* body runs first (it may define another element); then the constructor
\* throws, or hands back some other object, or hands back the element being
\* upgraded.  Which of the three is the user's choice, fixed per element.
\* Returns [s, result].
construct(s, definition, element) ==
  constructed(
    IF CtorInfo(definition.constructorFunction).bodyDefines /= Undefined
       /\ ~hasDefinition(s, CtorInfo(definition.constructorFunction).bodyDefines)
    THEN define(s, CtorInfo(definition.constructorFunction).bodyDefines, "Bare")
    ELSE s,
    element)

\* definition.constructionStack.push(element) (line 276).
pushConstructionStack(s, element) ==
  Logged([s EXCEPT !.localNameToDefinition[dom.localName[element]].constructionStack =
                      Append(@, element)],
         "construct", element, dom.localName[element])

\* if (result !== element) throw (lines 282-286); c is [s, result].
checkResult(c, element) ==
  IF c.s.exc = "none" /\ c.result /= element
  THEN Throw(c.s, "ConstructorMismatch")
  ELSE c.s

\* A faulty variant: the entry is popped only when the constructor
\* succeeded.
popConstructionStack_OnSuccessOnly(s, element) ==
  IF s.exc /= "none" THEN s
  ELSE [s EXCEPT !.localNameToDefinition[dom.localName[element]].constructionStack =
                    SubSeq(@, 1, Len(@) - 1)]

\* finally { definition.constructionStack.pop() } (lines 286-288).
popConstructionStack(s, element) ==
  [s EXCEPT !.localNameToDefinition[dom.localName[element]].constructionStack =
               SubSeq(@, 1, Len(@) - 1)]

\* A faulty variant: the element is marked failed and the error is dropped.
constructionFailed_Swallowed(s, element) ==
  Throw(Logged([s EXCEPT !.CE_state[element] = "failed"],
               "failed", element, s.CE_definition[element]),
        "none")

\* The catch block of upgradeElement (lines 289-292): the exception stays in
\* flight.  The record of it keeps what __CE_definition is at that moment.
constructionFailed(s, element) ==
  Logged([s EXCEPT !.CE_state[element] = "failed"],
         "failed", element, s.CE_definition[element])

\* element.__CE_state = custom; element.__CE_definition = definition
\* (lines 294-295).
setCustom(s, element) ==
  Logged([s EXCEPT !.CE_state[element] = "custom",
                   !.CE_definition[element] = dom.localName[element]],
         "upgraded", element, dom.localName[element])

\* if (definition.attributeChangedCallback) { ... } (lines 297-306).
upgradeObservedAttributes(s, element) ==
  IF getDefinition(s, dom.localName[element]).attributeChangedCallback
  THEN upgradeAttributes(s, element,
                         getDefinition(s, dom.localName[element]).observedAttributes, 1)
  ELSE s

\* if (Utilities.isConnected(element)) this.connectedCallback(element)
\* (lines 308-310).
upgradeConnected(s, element) ==
  IF isConnected(s, element) THEN connectedCallback(s, element) ELSE s

\* upgradeElement from the end of its try statement (lines 289-310); s is
\* the store after the construction stack was popped.
upgradeConstructed(s, element) ==
  IF s.exc /= "none"
  THEN constructionFailed(s, element)
  ELSE upgradeConnected(upgradeObservedAttributes(setCustom(s, element), element), element)

upgradeElement(s, element) ==
  IF s.CE_state[element] /= "undefined" THEN s
  ELSE IF ~dom.defaultView[dom.ownerDocument[element]]
          /\ ~(s.CE_isImportDocument[dom.ownerDocument[element]]
               /\ s.CE_hasRegistry[dom.ownerDocument[element]])
  THEN s
  ELSE IF ~hasDefinition(s, dom.localName[element]) THEN s
  ELSE upgradeConstructed(
         popConstructionStack(
           checkResult(
             construct(pushConstructionStack(s, element),
                       getDefinition(s, dom.localName[element]), element),
             element),
           element),
         element)

\* The upgrade loop once upgradeElement(elements[i]) has left store s: a
\* throw ends the loop.
upgradeElementsNext(s, elements, i) ==
  IF s.exc /= "none" THEN s ELSE upgradeElements(s, elements, i + 1)

\* for (i...) upgradeElement(elements[i]), from index i.
upgradeElements(s, elements, i) ==
  IF i > Len(elements) THEN s
  ELSE upgradeElementsNext(upgradeElement(s, elements[i]), elements, i)

\* The upgrade loop of patchAndUpgradeTree with the default upgrade
\* function; g is [s, elements].
upgradeGathered(g) == upgradeElements(g.s, g.elements, 1)

\* patchAndUpgradeTree with the default upgrade function.
patchAndUpgradeTree(s, root, visitedImports) ==
  upgradeGathered(gatherAndPatch(s, root, visitedImports, "upgradeElement"))

\* patchAndUpgradeTree(root, {visitedImports, upgrade}), as a 'load'
\* listener calls it.  The upgrade function a listener kept from _flush
\* sorts the elements into the lists of a flush that has returned, which
\* nothing reads any more.
patchAndUpgradeTreeWith(s, root, visitedImports, upgrade) ==
  IF upgrade = "flush"
  THEN gatherAndPatch(s, root, visitedImports, upgrade).s
  ELSE patchAndUpgradeTree(s, root, visitedImports)

\* A faulty variant: the listener does not look at __CE_documentLoadHandled.
loadListener_Unguarded(s, listener) ==
  patchAndUpgradeTreeWith(
    Logged([s EXCEPT !.CE_documentLoadHandled[dom.import[listener.link]] = TRUE],
           "loadHandled", dom.import[listener.link], Undefined),
    dom.import[listener.link],
    listener.visitedImports \ {dom.import[listener.link]},
    listener.upgrade)

\* The 'load' listener patchAndUpgradeTree adds to an import link
\* (lines 212-229).
loadListener(s, listener) ==
  IF s.CE_documentLoadHandled[dom.import[listener.link]] THEN s
  ELSE patchAndUpgradeTreeWith(
         Logged([s EXCEPT !.CE_documentLoadHandled[dom.import[listener.link]] = TRUE],
                "loadHandled", dom.import[listener.link], Undefined),
         dom.import[listener.link],
         listener.visitedImports \ {dom.import[listener.link]},
         listener.upgrade)

\* What a listener threw is reported by the browser; the dispatch goes on.
listenerReturned(s) ==
  IF s.exc /= "none" THEN Throw(Logged(s, "listenerError", NoNode, s.exc), "none") ELSE s

\* The browser dispatches 'load' to the listeners the link had when the
\* dispatch began, in the order they were added.
RECURSIVE dispatchLoad(_, _, _)
dispatchLoad(s, listeners, i) ==
  IF i > Len(listeners) THEN s
  ELSE dispatchLoad(listenerReturned(loadListener(s, listeners[i])), listeners, i + 1)

\* A link loads once: after the dispatch its listeners are never called
\* again, and they are no longer kept.
loadEvent(s, link) ==
  LET OnLink(l) == l.link = link
      Elsewhere(l) == l.link /= link
  IN  [dispatchLoad(s, SelectSeq(s.loadListeners, OnLink), 1)
         EXCEPT !.loadListeners = SelectSeq(@, Elsewhere)]

\* The loop of connectTree (lines 93-100), from index i.
RECURSIVE connectElements(_, _, _)
connectElementsNext(s, elements, i) ==
  IF s.exc /= "none" THEN s ELSE connectElements(s, elements, i + 1)

connectElements(s, elements, i) ==
  IF i > Len(elements) THEN s
  ELSE connectElementsNext(
         IF s.CE_state[elements[i]] = "custom"
         THEN connectedCallback(s, elements[i])
         ELSE upgradeElement(s, elements[i]),
         elements, i)

connectTree(s, root) ==
  connectElements(s, walkDeepDescendantElements(root, << >>, {}).elements, 1)

\* The loop of disconnectTree (lines 109-114), from index i.
RECURSIVE disconnectElements(_, _, _)
disconnectElements(s, elements, i) ==
  IF i > Len(elements) THEN s
  ELSE disconnectElements(
         IF s.CE_state[elements[i]] = "custom"
         THEN disconnectedCallback(s, elements[i])
         ELSE s,
         elements, i + 1)

disconnectTree(s, root) ==
  disconnectElements(s, walkDeepDescendantElements(root, << >>, {}).elements, 1)

(***************************************************************************)
(* CustomElementRegistry.ts                                                *)
(***************************************************************************)
\* getCallback for the four callbacks in the order of lines 89-92.
getCallbacks(s, prototype) ==
  IF \E name \in CallbackNames : prototype[name] = "number"
  THEN Throw(s, "CallbackNotAFunction")
  ELSE s

\* A prototype getter that called define has caught what define threw.
getterCaught(s) ==
  Throw(Logged(s, "getterDefine", NoNode, s.exc), "none")

\* The try block of define (lines 72-93).  Reading a prototype property may
\* run a user getter.
readCallbacks(s, constructor) ==
  IF ~CtorInfo(constructor).prototypeIsObject THEN Throw(s, "PrototypeNotAnObject")
  ELSE IF CtorInfo(constructor).getterDefines /= Undefined
  THEN getCallbacks(getterCaught(define(s, CtorInfo(constructor).getterDefines, "Bare")),
                    CtorInfo(constructor).prototype)
  ELSE getCallbacks(s, CtorInfo(constructor).prototype)

\* this._flushCallback(() => this._flush()), entered at wrapper `depth`
\* (depth 0 is the default fn => fn()).  A wrapper that calls what it is
\* given at once leaves the callback as it was; the wrappers here keep what
\* they are given for later ("defer").
invokeFlushCallback(s, depth) ==
  IF depth = 0 THEN flush(s)
  ELSE [s EXCEPT !.deferredFlush = @ \cup {depth - 1}]

\* A faulty variant: a name that is already defined is accepted again.
defineChecks_NoDuplicateCheck(s, localName, constructor) ==
  IF ~CtorInfo(constructor).isFunction THEN "ConstructorNotAFunction"
  ELSE IF ~isValidCustomElementName(localName) THEN "InvalidName"
  ELSE IF s.elementDefinitionIsRunning THEN "AlreadyBeingDefined"
  ELSE "none"

\* A faulty variant: a define made while another is running is accepted.
defineChecks_NoRunningCheck(s, localName, constructor) ==
  IF ~CtorInfo(constructor).isFunction THEN "ConstructorNotAFunction"
  ELSE IF ~isValidCustomElementName(localName) THEN "InvalidName"
  ELSE IF hasDefinition(s, localName) THEN "AlreadyDefined"
  ELSE "none"

\* The checks of define before it reads the callbacks (lines 47-62): the
\* error define throws, or "none".
defineChecks(s, localName, constructor) ==
  IF ~CtorInfo(constructor).isFunction THEN "ConstructorNotAFunction"
  ELSE IF ~isValidCustomElementName(localName) THEN "InvalidName"
  ELSE IF hasDefinition(s, localName) THEN "AlreadyDefined"
  ELSE IF s.elementDefinitionIsRunning THEN "AlreadyBeingDefined"
  ELSE "none"

\* A faulty variant: the flag stays set.
defineFinally_FlagKept(s) ==
  s

\* The finally block of define (lines 96-98).
defineFinally(s) ==
  [s EXCEPT !.elementDefinitionIsRunning = FALSE]

\* A faulty variant: the flush callback is invoked by every define.
scheduleFlush_Always(s, localName) ==
  invokeFlushCallback(
    Logged([s EXCEPT !.flushPending = TRUE,
                     !.callbackCalls = @ + 1,
                     !.maxCallbackCalls =
                        IF s.callbackCalls + 1 > @ THEN s.callbackCalls + 1 ELSE @],
           "flushCallback", NoNode, localName),
    Len(s.flushCallback))

\* The end of define (lines 116-119).
scheduleFlush(s, localName) ==
  IF ~s.flushPending
  THEN invokeFlushCallback(
         Logged([s EXCEPT !.flushPending = TRUE,
                          !.callbackCalls = @ + 1,
                          !.maxCallbackCalls =
                             IF s.callbackCalls + 1 > @ THEN s.callbackCalls + 1 ELSE @],
                "flushCallback", NoNode, localName),
         Len(s.flushCallback))
  ELSE s

\* The definition define builds (lines 100-109).
newDefinition(localName, constructor) ==
  [ localName |-> localName,
    constructorFunction |-> constructor,
    connectedCallback |-> CtorInfo(constructor).prototype["connectedCallback"] = "function",
    disconnectedCallback |->
       CtorInfo(constructor).prototype["disconnectedCallback"] = "function",
    adoptedCallback |-> CtorInfo(constructor).prototype["adoptedCallback"] = "function",
    attributeChangedCallback |->
       CtorInfo(constructor).prototype["attributeChangedCallback"] = "function",
    observedAttributes |-> CtorInfo(constructor).observedAttributes,
    constructionStack |-> << >> ]

\* this._pendingDefinitions.push(definition) (line 112).
pushPendingDefinitions(s, localName) ==
  [s EXCEPT !.pendingDefinitions = Append(@, localName)]

\* define from the end of its try block (lines 94-119); tried is the store
\* the try block leaves, with what it threw.
defineTried(tried, localName, constructor) ==
  IF tried.exc /= "none"
  THEN \* catch (e) { return; }
       Logged(Throw(defineFinally(tried), "none"), "defineCaught", NoNode, tried.exc)
  ELSE scheduleFlush(
         pushPendingDefinitions(
           setDefinition(defineFinally(tried), localName,
                         newDefinition(localName, constructor)),
           localName),
         localName)

define(s, localName, constructor) ==
  IF defineChecks(s, localName, constructor) /= "none"
  THEN Throw(s, defineChecks(s, localName, constructor))
  ELSE defineTried(
         readCallbacks([s EXCEPT !.elementDefinitionIsRunning = TRUE], constructor),
         localName, constructor)

\* A faulty variant: only the first element of a pending definition is kept.
bucketElement_FirstOnly(s, b, element) ==
  LET localName == dom.localName[element]
  IN  IF s.CE_state[element] /= "undefined" THEN b
      ELSE IF localName \in DOMAIN b.pending
      THEN [b EXCEPT !.pending[localName] = IF @ = << >> THEN <<element>> ELSE @]
      ELSE IF hasDefinition(s, localName)
      THEN [b EXCEPT !.stable = Append(@, element)]
      ELSE b

\* The upgrade function _flush hands to patchAndUpgradeTree (lines 152-170).
\* b is [stable, pending]: elementsWithStableDefinitions and
\* elementsWithPendingDefinitions.
bucketElement(s, b, element) ==
  LET localName == dom.localName[element]
  IN  IF s.CE_state[element] /= "undefined" THEN b
      ELSE IF localName \in DOMAIN b.pending
      THEN [b EXCEPT !.pending[localName] = Append(@, element)]
      ELSE IF hasDefinition(s, localName)
      THEN [b EXCEPT !.stable = Append(@, element)]
      ELSE b

\* The upgrade loop of patchAndUpgradeTree (lines 246-248) with _flush's
\* upgrade function, from index i.
RECURSIVE flushUpgrade(_, _, _, _)
flushUpgrade(s, b, elements, i) ==
  IF i > Len(elements) THEN b
  ELSE flushUpgrade(s, bucketElement(s, b, elements[i]), elements, i + 1)

\* A faulty variant: the queue is taken from its end.
shiftPendingDefinitions_Last(s) ==
  [s |-> [s EXCEPT !.pendingDefinitions = SubSeq(@, 1, Len(@) - 1)],
   localName |-> s.pendingDefinitions[Len(s.pendingDefinitions)]]

\* pendingDefinitions.shift() (line 181): [s, localName].
shiftPendingDefinitions(s) ==
  [s |-> [s EXCEPT !.pendingDefinitions = Tail(@)],
   localName |-> Head(s.pendingDefinitions)]

\* deferred.resolve(undefined), if whenDefined made a deferred for the name
\* (lines 192-195).
resolveDeferred(s, localName) ==
  IF localName \in DOMAIN s.whenDefinedDeferred
  THEN [s EXCEPT !.whenDefinedDeferred[localName] = "resolved"]
  ELSE s

\* The body of the while loop once the definition's elements have been
\* through upgradeElement (lines 191-196): a throw leaves _flush.
drainUpgraded(upgraded, localName, elementsWithPendingDefinitions) ==
  IF upgraded.exc /= "none" THEN upgraded
  ELSE drainPendingDefinitions(resolveDeferred(upgraded, localName),
                               elementsWithPendingDefinitions)

\* The body of the while loop after the shift (lines 182-189); shift is
\* [s, localName].
drainShifted(shift, elementsWithPendingDefinitions) ==
  IF shift.localName \notin DOMAIN elementsWithPendingDefinitions
  THEN \* undefined.length
       Throw(shift.s, "TypeError")
  ELSE drainUpgraded(
         upgradeElements(shift.s, elementsWithPendingDefinitions[shift.localName], 1),
         shift.localName, elementsWithPendingDefinitions)

\* The while loop of _flush (lines 180-196).
drainPendingDefinitions(s, elementsWithPendingDefinitions) ==
  IF Len(s.pendingDefinitions) = 0 THEN s
  ELSE drainShifted(shiftPendingDefinitions(s), elementsWithPendingDefinitions)

\* _flush past its guard (lines 132-149): the flag is cleared and the map of
\* pending elements has an empty list per queued definition.
flushStarted(s) ==
  [s EXCEPT !.flushPending = FALSE, !.callbackCalls = 0,
            !.log = Append(@, Event("flush", NoNode, s.pendingDefinitions, s.CE_state))]

emptyBuckets(s) ==
  [stable |-> << >>,
   pending |-> [localName \in {s.pendingDefinitions[i] :
                                 i \in 1..Len(s.pendingDefinitions)} |-> << >>]]

\* The end of _flush (line 197), reached when nothing threw.
flushDrained(drained) ==
  IF drained.exc /= "none" THEN drained
  ELSE Logged(drained, "flushEnd", NoNode, Undefined)

\* _flush after the loop over the elements with stable definitions
\* (lines 174-196).
flushStable(stableDone, elementsWithPendingDefinitions) ==
  IF stableDone.exc /= "none" THEN stableDone
  ELSE flushDrained(drainPendingDefinitions(stableDone, elementsWithPendingDefinitions))

\* _flush once the walk has sorted the elements into b (lines 173-196).
flushBucketed(s, b) ==
  flushStable(upgradeElements(s, b.stable, 1), b.pending)

\* _flush once patchAndUpgradeTree has gathered and patched the elements
\* (lines 151-196); g is [s, elements].
flushGathered(g) ==
  flushBucketed(g.s, flushUpgrade(g.s, emptyBuckets(g.s), g.elements, 1))

flush(s) ==
  IF s.flushPending = FALSE THEN s
  ELSE flushGathered(gatherAndPatch(flushStarted(s), Document, {}, "flush"))

\* get(localName): the constructor, or Undefined.
get(s, localName) ==
  IF hasDefinition(s, localName)
  THEN getDefinition(s, localName).constructorFunction
  ELSE "undefined"

\* whenDefined after this._whenDefinedDeferred.set(localName, deferred)
\* (lines 222-231).
whenDefinedCreated(s, localName) ==
  IF hasDefinition(s, localName)
     /\ ~\E i \in 1..Len(s.pendingDefinitions) : s.pendingDefinitions[i] = localName
  THEN [s EXCEPT !.whenDefinedDeferred[localName] = "resolved"]
  ELSE s

whenDefined(s, localName) ==
  IF ~isValidCustomElementName(localName) THEN Logged(s, "rejected", NoNode, localName)
  ELSE IF localName \in DOMAIN s.whenDefinedDeferred THEN s
  ELSE whenDefinedCreated(
         [s EXCEPT !.whenDefinedDeferred =
             [n \in (DOMAIN @) \cup {localName} |->
                IF n = localName THEN "pending" ELSE @[n]]],
         localName)

upgrade(s, element) == patchAndUpgradeTree(s, element, {})

polyfillWrapFlushCallback(s, outer) ==
  [s EXCEPT !.flushCallback = Append(@, outer)]


(***************************************************************************)
(* The state machine: one action per call of the public interface, per     *)
(* run of a deferred flush trigger.                                        *)
(***************************************************************************)
\* How many times polyfillWrapFlushCallback is called.
MaxWrap == 1
\* On how many elements the user's constructors fail.
MaxFailing == 1

EmptyMap == [x \in {} |-> Undefined]

\* The elements the user's constructors may fail on: those that carry
\* attribute "c".  On such an element that also carries "a" the constructor
\* throws; on the others it returns an object that is not the element.
MayFail(d) == {n \in Nodes : d.nodeType[n] = "element" /\ "c" \in d.attrs[n]}

\* The arguments define is called with.
DefineInputs ==
  { <<XA, "NotAFunction">>, <<DIV, "NotAFunction">>, <<XA, "NoPrototype">>,
    <<XA, "BadConnected">>, <<XB, "BadConnected">>, <<XC, "BadAttributeChanged">>,
    <<DIV, "BadConnected">>,
    <<XA, "Full">>, <<XA, "Redefiner">>, <<XB, "Bare">>, <<XC, "GetterDefiner">>,
    <<DIV, "Full">>, <<UPPER, "Full">>, <<DASHFIRST, "Bare">>, <<FONTFACE, "Full">> }

\* The wrappers polyfillWrapFlushCallback is given.
Wrappers == {"defer"}

\* The names whenDefined is called with.
WhenDefinedInputs == {XB, DIV}

\* The engine as constructed, on a page whose tree is dom.
InitStore ==
  /\ elementDefinitionIsRunning = FALSE
  /\ whenDefinedDeferred = EmptyMap
  /\ flushCallback = << >>
  /\ flushPending = FALSE
  /\ pendingDefinitions = << >>
  /\ localNameToDefinition = EmptyMap
  /\ constructorToDefinition = EmptyMap
  /\ hasPatches = dom.hasPatches
  /\ CE_state = [n \in Nodes |-> "undefined"]
  /\ CE_definition = [n \in Nodes |-> Undefined]
  /\ CE_patched = [n \in Nodes |-> FALSE]
  /\ CE_isImportDocument = [n \in Nodes |-> FALSE]
  /\ CE_hasRegistry = [n \in Nodes |-> FALSE]
  /\ CE_documentLoadHandled = [n \in Nodes |-> FALSE]
  /\ loadListeners = << >>
  /\ deferredFlush = {}
  /\ \E bad \in SUBSET MayFail(dom) :
        /\ Cardinality(bad) <= MaxFailing
        /\ ctorThrows = {n \in bad : "a" \in dom.attrs[n]}
        /\ ctorMismatch = {n \in bad : "a" \notin dom.attrs[n]}
  /\ callbackCalls = 0
  /\ maxCallbackCalls = 0

Init ==
  /\ dom \in Doms
  /\ InitStore

\* How many 'load' listeners the walks add to a link that has not loaded.
MaxListeners == 2

\* The engine's state after a call that left it in store s.
CommitStore(s) ==
  /\ \A link \in Nodes :
        Cardinality({i \in 1..Len(s.loadListeners) : s.loadListeners[i].link = link})
          <= MaxListeners
  /\ elementDefinitionIsRunning' = s.elementDefinitionIsRunning
  /\ whenDefinedDeferred' = s.whenDefinedDeferred
  /\ flushCallback' = s.flushCallback
  /\ flushPending' = s.flushPending
  /\ pendingDefinitions' = s.pendingDefinitions
  /\ localNameToDefinition' = s.localNameToDefinition
  /\ constructorToDefinition' = s.constructorToDefinition
  /\ hasPatches' = s.hasPatches
  /\ CE_state' = s.CE_state
  /\ CE_definition' = s.CE_definition
  /\ CE_patched' = s.CE_patched
  /\ CE_isImportDocument' = s.CE_isImportDocument
  /\ CE_hasRegistry' = s.CE_hasRegistry
  /\ CE_documentLoadHandled' = s.CE_documentLoadHandled
  /\ loadListeners' = s.loadListeners
  /\ deferredFlush' = s.deferredFlush
  /\ callbackCalls' = s.callbackCalls
  /\ maxCallbackCalls' = s.maxCallbackCalls
  /\ UNCHANGED << ctorThrows, ctorMismatch >>

\* The state after a call that left the engine in store s.
Commit(s) ==
  /\ CommitStore(s)
  /\ UNCHANGED dom

\* customElements.define(localName, constructor)
Define(localName, constructor) ==
  Commit(define(Store, localName, constructor))

\* customElements.whenDefined(localName)
WhenDefined(localName) ==
  Commit(whenDefined(Store, localName))

\* The roots customElements.upgrade is called on: the document and the
\* detached elements.
UpgradeRoots ==
  {Document} \cup
  {n \in Nodes : dom.nodeType[n] = "element" /\ parentNode(n) = NoNode
                 /\ dom.ownerDocument[n] /= n}

\* customElements.upgrade(root)
Upgrade(root) ==
  Commit(upgrade(Store, root))

\* customElements.polyfillWrapFlushCallback(outer)
PolyfillWrapFlushCallback(outer) ==
  /\ Len(flushCallback) < MaxWrap
  /\ Commit(polyfillWrapFlushCallback(Store, outer))

\* A deferring flush callback calls the function it was given (for the
\* first time, or again: it may keep the function).
RunDeferredFlush(depth) ==
  /\ depth \in deferredFlush
  /\ Commit(invokeFlushCallback(Store, depth))

\* The roots the DOM patches call connectTree and disconnectTree on: the
\* roots of upgrade and the template elements.
TreeRoots ==
  UpgradeRoots \cup
  {n \in Nodes : dom.nodeType[n] = "element" /\ dom.localName[n] = TEMPLATE}

\* internals.connectTree(root), called by a DOM patch after an insertion.
ConnectTree(root) ==
  Commit(connectTree(Store, root))

\* internals.disconnectTree(root), called by a DOM patch after a removal.
DisconnectTree(root) ==
  Commit(disconnectTree(Store, root))

\* The browser has loaded import document `doc`: the links that wait for it
\* hand it out, it is complete, and a 'load' event is due on each of them.
ImportLoaded(doc) ==
  /\ \E link \in Nodes : dom.pendingImport[link] = doc
  /\ dom' = [dom EXCEPT
               !.import = [n \in Nodes |-> IF dom.pendingImport[n] = doc THEN doc ELSE @[n]],
               !.readyState[doc] = "complete",
               !.loadEventDue = [n \in Nodes |-> dom.pendingImport[n] = doc \/ @[n]],
               !.pendingImport = [n \in Nodes |->
                                    IF dom.pendingImport[n] = doc THEN NoNode ELSE @[n]]]
  /\ UNCHANGED << elementDefinitionIsRunning, whenDefinedDeferred, flushCallback,
                  flushPending, pendingDefinitions, localNameToDefinition,
                  constructorToDefinition, hasPatches, CE_state, CE_definition,
                  CE_patched, CE_isImportDocument, CE_hasRegistry,
                  CE_documentLoadHandled, loadListeners, deferredFlush, ctorThrows,
                  ctorMismatch, callbackCalls, maxCallbackCalls >>

\* The browser dispatches the 'load' event of an import link.
LoadEvent(link) ==
  /\ dom.loadEventDue[link]
  /\ CommitStore(loadEvent(Store, link))
  /\ dom' = [dom EXCEPT !.loadEventDue[link] = FALSE]

Next ==
  \/ \E input \in DefineInputs : Define(input[1], input[2])
  \/ \E localName \in WhenDefinedInputs : WhenDefined(localName)
  \/ \E root \in UpgradeRoots : Upgrade(root)
  \/ \E outer \in Wrappers : PolyfillWrapFlushCallback(outer)
  \/ \E depth \in 0..MaxWrap : RunDeferredFlush(depth)
  \/ \E root \in TreeRoots : ConnectTree(root)
  \/ \E root \in TreeRoots : DisconnectTree(root)

Spec == Init /\ [][Next]_vars

\* The DOM patches at work: they register their patches, patch the
\* elements they create (among them elements no walk of the document
\* reaches) and the trees they clone, while scripts define elements and
\* call upgrade.
PatchingDefineInputs == {<<XA, "Full">>, <<XA, "Redefiner">>, <<XB, "Bare">>}

\* The elements the DOM patches call patchElement on.
PatchedDirectly == {n \in {7, 8, 13, 16} : dom.nodeType[n] = "element"}

\* internals.addElementPatch(patch)
AddElementPatch ==
  Commit(addElementPatch(Store))

\* internals.patchElement(element)
PatchElement(element) ==
  Commit(patchElement(Store, element))

\* internals.patchTree(root)
PatchTree(root) ==
  Commit(patchTree(Store, root))

NextPatching ==
  \/ \E input \in PatchingDefineInputs : Define(input[1], input[2])
  \/ \E root \in UpgradeRoots : Upgrade(root)
  \/ AddElementPatch
  \/ \E element \in PatchedDirectly : PatchElement(element)
  \/ \E root \in TreeRoots : PatchTree(root)

SpecPatching == Init /\ [][NextPatching]_vars

\* Scripts that register one class under several names, with the default or
\* a deferring flush callback.
SharingDefineInputs ==
  {<<XA, "Full">>, <<XB, "Full">>, <<XB, "Bare">>, <<XC, "Bare">>, <<XC, "Full">>}

NextSharing ==
  \/ \E input \in SharingDefineInputs : Define(input[1], input[2])
  \/ \E outer \in Wrappers : PolyfillWrapFlushCallback(outer)
  \/ \E depth \in 0..MaxWrap : RunDeferredFlush(depth)

SpecSharing == Init /\ [][NextSharing]_vars

\* A page whose imports load while its scripts define x-a and x-b and call
\* upgrade on the document.
LoadingDefineInputs == {<<XA, "Full">>, <<XB, "Bare">>}

InitLoading ==
  /\ dom = DomLoading
  /\ InitStore

NextLoading ==
  \/ \E input \in LoadingDefineInputs : Define(input[1], input[2])
  \/ Upgrade(Document)
  \/ \E doc \in Nodes : ImportLoaded(doc)
  \/ \E link \in Nodes : LoadEvent(link)

SpecLoading == InitLoading /\ [][NextLoading]_vars


(***************************************************************************)
(* Properties.  A property of a call is stated in every reachable state:   *)
(* the outcome of the call from that state (the store it leaves, the       *)
(* exception in flight and the log of what it ran) is computed and         *)
(* compared with what is expected of it.                                   *)
(***************************************************************************)
Range(seq) == {seq[i] : i \in 1..Len(seq)}

\* The custom-name grammar in words: a lower-case first letter, at least one
\* hyphen, only lower-case letters, digits, ".", "_" and "-" (no hyphen
\* before the first one is the same as at least one hyphen), and not one of
\* the reserved names.
SatisfiesGrammar(n) ==
  /\ Len(n) > 0
  /\ n[1] \in Lower
  /\ "-" \in Range(n)
  /\ Range(n) \subseteq Lower \cup Digit \cup {"-", ".", "_"}
  /\ n \notin reservedTagList

IsFunction(C) == CtorInfo(C).isFunction

\* A constructor define accepts: a function whose prototype is an object and
\* whose lifecycle callbacks, where present, are functions.
WellFormed(C) ==
  /\ CtorInfo(C).isFunction
  /\ CtorInfo(C).prototypeIsObject
  /\ \A name \in CallbackNames : CtorInfo(C).prototype[name] /= "number"

\* A constructor with a lifecycle callback that is present and not callable.
MalformedCallback(C) ==
  /\ CtorInfo(C).isFunction
  /\ CtorInfo(C).prototypeIsObject
  /\ \E name \in CallbackNames : CtorInfo(C).prototype[name] = "number"

\* The call left the engine as it was.
SameRegistry(r) == [r EXCEPT !.log = << >>, !.exc = "none"] = Store

\* The outcomes of the calls other than define from the current state.
OtherOutcomes ==
  {whenDefined(Store, n) : n \in WhenDefinedInputs}
  \cup {upgrade(Store, root) : root \in UpgradeRoots}
  \cup {polyfillWrapFlushCallback(Store, outer) : outer \in Wrappers}
  \cup {invokeFlushCallback(Store, depth) : depth \in deferredFlush}

\* The outcomes of all calls from the current state.
Outcomes ==
  {define(Store, input[1], input[2]) : input \in DefineInputs} \cup OtherOutcomes

\* C1: after define(n, C) with a name n that satisfies the grammar, was not
\* defined, and a well-formed C, get(n) is C; no call ever removes or
\* replaces what get returns for a defined name; define with a name that
\* does not satisfy the grammar fails (with the invalid-name error when C is
\* a function) and get of such a name is absent, always.
C1_DefineGetRoundTrip ==
  /\ \A n \in DOMAIN localNameToDefinition : SatisfiesGrammar(n)
  /\ \A n \in Names : ~SatisfiesGrammar(n) => get(Store, n) = "undefined"
  /\ \A input \in DefineInputs :
       LET n == input[1]
           C == input[2]
           r == define(Store, n, C)
       IN  /\ (SatisfiesGrammar(n) /\ get(Store, n) = "undefined" /\ WellFormed(C))
                => get(r, n) = C
           /\ (~SatisfiesGrammar(n) /\ IsFunction(C)) => r.exc = "InvalidName"
           /\ ~SatisfiesGrammar(n) => r.exc /= "none" /\ SameRegistry(r)
           /\ ~SatisfiesGrammar(n) => get(r, n) = "undefined"
           /\ \A m \in Names :
                 get(Store, m) /= "undefined" => get(r, m) = get(Store, m)
  /\ \A r \in OtherOutcomes : \A m \in Names :
        get(Store, m) /= "undefined" => get(r, m) = get(Store, m)

\* x-a was defined with Full and its elements were upgraded, and x-b was
\* defined after it: get still answers Full for x-a.
C1_Witness ==
  /\ get(Store, XA) = "Full"
  /\ get(Store, XB) = "Bare"
  /\ \E n \in Nodes : CE_definition[n] = XA
  /\ \E n \in Nodes : CE_definition[n] = XB
  /\ define(Store, FONTFACE, "Full").exc = "InvalidName"

\* C2: define(n, C2) for a name that is already defined (pending or
\* flushed) fails, with the duplicate-definition error when C2 is a
\* function, and changes nothing:
\* not the two indexes, not the pending queue, not the flush-pending flag,
\* not the mid-registration flag, and it runs nothing.
C2_DuplicateDefineRejected ==
  \A input \in DefineInputs :
     LET n == input[1]
         C == input[2]
         r == define(Store, n, C)
     IN  get(Store, n) /= "undefined" =>
            /\ IsFunction(C) => r.exc = "AlreadyDefined"
            /\ r.exc /= "none"
            /\ get(r, n) = get(Store, n)
            /\ r.localNameToDefinition = localNameToDefinition
            /\ r.constructorToDefinition = constructorToDefinition
            /\ r.pendingDefinitions = pendingDefinitions
            /\ r.flushPending = flushPending
            /\ r.elementDefinitionIsRunning = elementDefinitionIsRunning
            /\ r.log = << >>
            /\ SameRegistry(r)

\* One name is defined and still pending, another is defined and flushed,
\* and define with a different constructor is rejected for both.
C2_Witness ==
  \E pending \in DefineInputs, flushed \in DefineInputs :
     /\ pending[1] \in Range(pendingDefinitions)
     /\ flushed[1] \in (DOMAIN localNameToDefinition) \ Range(pendingDefinitions)
     /\ IsFunction(pending[2]) /\ pending[2] /= get(Store, pending[1])
     /\ IsFunction(flushed[2]) /\ flushed[2] /= get(Store, flushed[1])
     /\ define(Store, pending[1], pending[2]).exc = "AlreadyDefined"
     /\ define(Store, flushed[1], flushed[2]).exc = "AlreadyDefined"

\* C3: define with a lifecycle callback that is present and not callable
\* reports the callback-must-be-a-function error to its caller.
C3_MalformedCallbackReported ==
  \A input \in DefineInputs :
     LET n == input[1]
         C == input[2]
         r == define(Store, n, C)
     IN  (SatisfiesGrammar(n) /\ get(Store, n) = "undefined" /\ MalformedCallback(C))
            => r.exc = "CallbackNotAFunction"

\* C4: a define that is given a malformed callback leaves the registry as it
\* was (both indexes, the pending queue, the flags), the mid-registration
\* flag is clear when it returns, and a later define of a well-formed
\* constructor is not refused.
C4_AbortedDefineLeavesRegistry ==
  /\ elementDefinitionIsRunning = FALSE
  /\ \A input \in DefineInputs :
       LET n == input[1]
           C == input[2]
           r == define(Store, n, C)
       IN  (SatisfiesGrammar(n) /\ get(Store, n) = "undefined" /\ MalformedCallback(C)) =>
              /\ r.elementDefinitionIsRunning = FALSE
              /\ r.localNameToDefinition = localNameToDefinition
              /\ r.constructorToDefinition = constructorToDefinition
              /\ r.pendingDefinitions = pendingDefinitions
              /\ SameRegistry(r)
              /\ \A later \in DefineInputs :
                    (SatisfiesGrammar(later[1]) /\ get(r, later[1]) = "undefined"
                       /\ WellFormed(later[2])) =>
                       get(define([r EXCEPT !.log = << >>], later[1], later[2]), later[1])
                          = later[2]

\* Names are defined, one of them pending, and a define with a malformed
\* callback is given up inside define.
C4_Witness ==
  /\ pendingDefinitions /= << >>
  /\ \E input \in DefineInputs :
       LET r == define(Store, input[1], input[2])
       IN  /\ MalformedCallback(input[2])
           /\ \E i \in 1..Len(r.log) :
                 r.log[i].kind = "defineCaught" /\ r.log[i].name = "CallbackNotAFunction"

\* C5: the flush callback is invoked at most once between two executions of
\* the flush body (callbackCalls counts the invocations since the last
\* one, maxCallbackCalls is the greatest value it ever had).
C5_FlushCallbackOncePerFlush ==
  /\ maxCallbackCalls <= 1
  /\ callbackCalls = 1 <=> flushPending

\* Two definitions wait for one deferred flush.
C5_Witness ==
  /\ Len(pendingDefinitions) >= 2
  /\ flushPending
  /\ callbackCalls = 1
  /\ deferredFlush /= {}


\* The elements of the document in document order, as the flush walks them.
DocumentOrder == walkDeepDescendantElements(Document, << >>, {}).elements

Before(seq, x, y) ==
  \E i, j \in 1..Len(seq) : i < j /\ seq[i] = x /\ seq[j] = y

\* The elements a flush that starts with element states S is to upgrade for
\* the definition of n: in the document (order is its document order),
\* outside templates, owned by a document with a browsing context, named n
\* and not yet upgraded.
Candidates(order, S, n) ==
  {e \in Range(order) :
     /\ dom.localName[e] = n
     /\ S[e] = "undefined"
     /\ dom.defaultView[dom.ownerDocument[e]]}

Count(log, kind, from, to) ==
  Cardinality({k \in from..to : log[k].kind = kind})

\* The flush body that started at position f of the log ran to its end (at
\* position g: flush bodies nest like brackets).
FlushCompletedAt(log, f, g) ==
  /\ f < g
  /\ log[g].kind = "flushEnd"
  /\ Count(log, "flush", f + 1, g - 1) = Count(log, "flushEnd", f + 1, g - 1)
  /\ \A h \in (f + 1)..(g - 1) :
        log[h].kind = "flushEnd" =>
           Count(log, "flush", f + 1, h - 1) >= Count(log, "flushEnd", f + 1, h)

FlushCompleted(log, f) == \E g \in 1..Len(log) : FlushCompletedAt(log, f, g)

\* The constructor was run on e at position p of the log.
Constructed(log, p, e) == log[p].kind = "construct" /\ log[p].el = e

\* C6: when D1 was queued before D2 in the batch a flush body starts with,
\* no element of D2 is constructed before every element the flush is to
\* upgrade for D1 has been, and those of D1 are constructed in document
\* order.
C6_RegistrationOrderThenDocumentOrder ==
  LET order == DocumentOrder
  IN  \A r \in Outcomes : \A f \in 1..Len(r.log) :
         r.log[f].kind = "flush" =>
            LET Q == r.log[f].name
                S == r.log[f].state
                todo == [n \in Range(Q) |-> Candidates(order, S, n)]
                \* the position after f at which e is first constructed, or 0
                first == [e \in Range(order) |->
                            LET ps == {p \in (f + 1)..Len(r.log) : Constructed(r.log, p, e)}
                            IN  IF ps = {} THEN 0
                                ELSE CHOOSE p \in ps : \A q \in ps : p <= q]
            IN  \A i \in 1..Len(Q) :
                   /\ \A j \in (i + 1)..Len(Q) : \A e2 \in todo[Q[j]] :
                         first[e2] /= 0 =>
                            \A e1 \in todo[Q[i]] : first[e1] /= 0 /\ first[e1] < first[e2]
                   /\ \A e1, e2 \in todo[Q[i]] :
                         (Before(order, e1, e2) /\ first[e2] /= 0) =>
                            first[e1] /= 0 /\ first[e1] < first[e2]

\* A deferred flush of two definitions constructs an element of the first
\* definition and then an element of the second that comes earlier in the
\* document.
C6_Witness ==
  /\ Len(pendingDefinitions) = 2
  /\ \E depth \in deferredFlush :
        LET r == invokeFlushCallback(Store, depth)
        IN  \E p, q \in 1..Len(r.log) :
               /\ p < q
               /\ r.log[p].kind = "construct" /\ r.log[q].kind = "construct"
               /\ dom.localName[r.log[p].el] = pendingDefinitions[1]
               /\ dom.localName[r.log[q].el] = pendingDefinitions[2]
               /\ Before(DocumentOrder, r.log[q].el, r.log[p].el)

\* C7: when a flush body whose batch holds n runs to its end, and the
\* constructor succeeds for each of the elements named n that were in the
\* document (outside templates, browsing context) and not upgraded when it
\* started, each of them is custom with n's definition.
C7_FlushUpgradesAllCandidates ==
  \A r \in Outcomes : \A f \in 1..Len(r.log) :
     (r.log[f].kind = "flush" /\ FlushCompleted(r.log, f)) =>
        \A n \in Range(r.log[f].name) :
           LET N == Candidates(DocumentOrder, r.log[f].state, n)
           IN  (N \cap (ctorThrows \cup ctorMismatch) = {}) =>
                  \A e \in N : r.CE_state[e] = "custom" /\ r.CE_definition[e] = n

\* A flush body with a batch of two definitions runs to its end and has
\* upgraded two or more elements of one of them, while the element of the
\* same name inside the template is left alone.
C7_Witness ==
  \E r \in Outcomes : \E f \in 1..Len(r.log) :
     /\ r.log[f].kind = "flush"
     /\ Len(r.log[f].name) >= 2
     /\ FlushCompleted(r.log, f)
     /\ \E n \in Range(r.log[f].name) :
           /\ Cardinality(Candidates(DocumentOrder, r.log[f].state, n)) >= 2
           /\ \A e \in Candidates(DocumentOrder, r.log[f].state, n) :
                 r.CE_state[e] = "custom" /\ r.CE_definition[e] = n
           /\ \E t \in Nodes : dom.localName[t] = n /\ r.CE_state[t] = "undefined"

ReactionKinds == {"attributeChangedCallback", "connectedCallback"}

\* The reactions that follow position i - 1 of the log without interruption.
RECURSIVE ReactionsFrom(_, _, _)
ReactionsFrom(log, e, i) ==
  IF i > Len(log) \/ log[i].el /= e \/ log[i].kind \notin ReactionKinds
  THEN << >>
  ELSE <<log[i]>> \o ReactionsFrom(log, e, i + 1)

RECURSIVE ShadowIncludingRoot(_)
ShadowIncludingRoot(n) ==
  IF parentNode(n) /= NoNode THEN ShadowIncludingRoot(parentNode(n))
  ELSE IF dom.host[n] /= NoNode THEN ShadowIncludingRoot(dom.host[n])
  ELSE n

ConnectedToDocument(e) == dom.nodeType[ShadowIncludingRoot(e)] = "document"

Present(e, names) == SelectSeq(names, LAMBDA a : a \in dom.attrs[e])

\* The reactions an upgrade of e to the class C owes: one attribute-changed
\* reaction per observed attribute that e carries, in the order C declares
\* them, then the connected reaction if e is connected; each for a callback
\* C has; each sees e in state custom.
ExpectedReactions(e, C) ==
  LET info == CtorInfo(C)
      changed == IF info.prototype["attributeChangedCallback"] = "function"
                 THEN Present(e, info.observedAttributes)
                 ELSE << >>
  IN  [k \in 1..Len(changed) |->
         Event("attributeChangedCallback", e, changed[k], "custom")]
      \o (IF ConnectedToDocument(e) /\ info.prototype["connectedCallback"] = "function"
          THEN <<Event("connectedCallback", e, Undefined, "custom")>>
          ELSE << >>)

\* C8: the reactions of one successful upgrade are attributeChangedCallback
\* for each observed attribute present on the element, in declaration order
\* (none for an absent or an unobserved attribute), then connectedCallback
\* iff the element is connected; the element is custom when the first of
\* them runs; no reaction runs outside such an upgrade.
C8_UpgradeReactionOrder ==
  \A r \in Outcomes : \A i \in 1..Len(r.log) :
     /\ r.log[i].kind = "upgraded" =>
           /\ r.log[i].state = "custom"
           /\ ReactionsFrom(r.log, r.log[i].el, i + 1)
                 = ExpectedReactions(r.log[i].el, get(r, dom.localName[r.log[i].el]))
     /\ r.log[i].kind \in ReactionKinds =>
           /\ r.log[i].state = "custom"
           /\ \E u \in 1..(i - 1) :
                 /\ r.log[u].kind = "upgraded" /\ r.log[u].el = r.log[i].el
                 /\ \A k \in (u + 1)..i :
                       r.log[k].kind \in ReactionKinds /\ r.log[k].el = r.log[i].el

\* The connected element 5 (attributes a and b) is upgraded to Full, which
\* observes b then a, and so is the connected element 9 (attributes b and
\* c: a is absent, c is not observed).
C8_Witness ==
  /\ dom = DomPage
  /\ get(Store, XA) = "Full"
  /\ \E r \in Outcomes : \E i, j \in 1..Len(r.log) :
        /\ r.log[i].kind = "upgraded" /\ r.log[i].el = 5
        /\ ReactionsFrom(r.log, 5, i + 1) =
              << Event("attributeChangedCallback", 5, "b", "custom"),
                 Event("attributeChangedCallback", 5, "a", "custom"),
                 Event("connectedCallback", 5, Undefined, "custom") >>
        /\ r.log[j].kind = "upgraded" /\ r.log[j].el = 9
        /\ ReactionsFrom(r.log, 9, j + 1) =
              << Event("attributeChangedCallback", 9, "b", "custom"),
                 Event("connectedCallback", 9, Undefined, "custom") >>

\* C9: when the constructor throws or hands back another object during the
\* upgrade of an element, the element is failed, the error reaches the
\* caller, and nothing more is done: nothing runs after the failure but the
\* failures of the upgrades it unwinds through, and __CE_definition stays
\* what it was at the failure; an element whose only upgrade in the call
\* failed has no definition attached and had no reaction.
C9_FailedUpgrade ==
  \A r \in Outcomes : \A i \in 1..Len(r.log) :
        r.log[i].kind = "failed" =>
           LET e == r.log[i].el
           IN  /\ r.exc /= "none"
               /\ e \in ctorThrows => r.exc = "UserError"
               /\ e \in ctorMismatch => r.exc = "ConstructorMismatch"
               /\ r.log[i].state = "failed"
               /\ r.CE_state[e] = "failed"
               /\ \A k \in (i + 1)..Len(r.log) : r.log[k].kind = "failed"
               /\ r.CE_definition[e] = r.log[i].name
               /\ (Cardinality({k \in 1..Len(r.log) : Constructed(r.log, k, e)}) = 1) =>
                     /\ r.CE_definition[e] = Undefined
                     /\ \A k \in 1..Len(r.log) :
                           r.log[k].el = e => r.log[k].kind \notin ReactionKinds

\* An upgrade fails on a constructor that hands back another object, after
\* another element was upgraded in the same call, a deferred flush.
C9_Witness ==
  \E depth \in deferredFlush : \E i, u \in 1..Len(invokeFlushCallback(Store, depth).log) :
   LET r == invokeFlushCallback(Store, depth)
   IN
     /\ u < i
     /\ r.log[u].kind = "upgraded"
     /\ r.log[i].kind = "failed"
     /\ r.log[i].el \in ctorMismatch
     /\ r.exc = "ConstructorMismatch"
     /\ r.CE_state[r.log[i].el] = "failed"

\* C10: the future whenDefined(n) made is resolved once n is defined and its
\* flush has run (n has left the pending queue), whether or not an upgrade
\* of that flush threw.
C10_FutureResolvedOnceFlushed ==
  \A n \in DOMAIN whenDefinedDeferred :
     (get(Store, n) /= "undefined" /\ n \notin Range(pendingDefinitions))
        => whenDefinedDeferred[n] = "resolved"

\* What C10's future is left with: no call resolves the future of a defined
\* name that has left the pending queue.
C10_UnresolvedFutureStaysUnresolved ==
  \A n \in DOMAIN whenDefinedDeferred :
     (get(Store, n) /= "undefined" /\ n \notin Range(pendingDefinitions)
        /\ whenDefinedDeferred[n] = "pending")
        => \A r \in Outcomes : r.whenDefinedDeferred[n] = "pending"


\* The outcomes of the calls the DOM patches make from the current state.
TreeOutcomes ==
  {connectTree(Store, root) : root \in TreeRoots}
  \cup {disconnectTree(Store, root) : root \in TreeRoots}

\* The outcomes of all calls, the registry's and the DOM patches'.
AllOutcomes == Outcomes \cup TreeOutcomes

\* C11: a resolved future belongs to a name that is defined and has left the
\* pending queue, and every element of that name that the flush was to
\* upgrade (in the document, outside templates, browsing context) has been
\* through its upgrade: none of them is still in state undefined.
C11_ResolvedOnlyAfterUpgradeAttempts ==
  \A n \in DOMAIN whenDefinedDeferred :
     whenDefinedDeferred[n] = "resolved" =>
        /\ get(Store, n) /= "undefined"
        /\ n \notin Range(pendingDefinitions)
        /\ Candidates(DocumentOrder, CE_state, n) = {}

\* What does hold of C11: a resolved future belongs to a defined name that
\* has left the queue; whenDefined hands back the future it made before
\* (the entry is never replaced, a resolved one stays resolved); a new one
\* is resolved at once iff the name is defined and not queued; and a future
\* of an invalid name is never made.
C11_ResolvedOnlyWhenDefinedAndFlushed ==
  /\ \A n \in DOMAIN whenDefinedDeferred :
        /\ SatisfiesGrammar(n)
        /\ whenDefinedDeferred[n] = "resolved" =>
              get(Store, n) /= "undefined" /\ n \notin Range(pendingDefinitions)
        /\ SameRegistry(whenDefined(Store, n))
        /\ \A r \in AllOutcomes :
              /\ n \in DOMAIN r.whenDefinedDeferred
              /\ whenDefinedDeferred[n] = "resolved" => r.whenDefinedDeferred[n] = "resolved"
  /\ \A n \in WhenDefinedInputs :
        (SatisfiesGrammar(n) /\ n \notin DOMAIN whenDefinedDeferred) =>
           /\ n \in DOMAIN whenDefined(Store, n).whenDefinedDeferred
           /\ whenDefined(Store, n).whenDefinedDeferred[n] = "resolved"
                <=> (get(Store, n) /= "undefined" /\ n \notin Range(pendingDefinitions))


Templates ==
  {n \in Nodes : dom.nodeType[n] = "element" /\ dom.localName[n] = TEMPLATE}

ImportLinks ==
  {n \in Nodes : dom.nodeType[n] = "element" /\ isImportLink(n)}

\* The nodes above n: its parent, or the host of its shadow root, and so on.
RECURSIVE Ancestors(_)
Ancestors(n) ==
  IF parentNode(n) /= NoNode THEN {parentNode(n)} \cup Ancestors(parentNode(n))
  ELSE IF dom.host[n] /= NoNode THEN {dom.host[n]} \cup Ancestors(dom.host[n])
  ELSE {}

AncestorTable == [n \in Nodes |-> Ancestors(n)]

\* The nodes inside a template that `root` is, or is above (anc is the
\* table of ancestors).
InsideTemplateBelow(anc, root) ==
  {d \in Nodes : \E t \in Templates \cap anc[d] : root = t \/ root \in anc[t]}

\* The templates at or below `root` that no other template and no import
\* link hides.
TemplatesBelow(anc, root) ==
  {t \in Templates : /\ root = t \/ root \in anc[t]
                     /\ anc[t] \cap (Templates \cup ImportLinks) = {}}

\* The call that left store r did nothing to the nodes D: their state,
\* definition and patched flag are what they were and nothing ran on them.
LeftAlone(r, D) ==
  \A d \in D :
     /\ r.CE_state[d] = CE_state[d]
     /\ r.CE_definition[d] = CE_definition[d]
     /\ r.CE_patched[d] = CE_patched[d]
     /\ \A i \in 1..Len(r.log) : r.log[i].el /= d

LoadingOutcomes ==
  {define(Store, input[1], input[2]) : input \in LoadingDefineInputs}
  \cup {upgrade(Store, Document)}

\* How often the call with log `log` ran the load continuation of import
\* document d.
Continuations(log, d) ==
  Cardinality({i \in 1..Len(log) : log[i].kind = "loadHandled" /\ log[i].el = d})

ListenersOn(listeners, link) ==
  {i \in 1..Len(listeners) : listeners[i].link = link}

C14_StateOnlyMovesForward ==
  /\ \A e \in Nodes :
        (dom.nodeType[e] = "element" /\ CE_state[e] /= "undefined") =>
           upgradeElement(Store, e) = Store
  /\ \A r \in AllOutcomes :
        /\ \A e \in Nodes : CE_state[e] /= "undefined" => r.CE_state[e] = CE_state[e]
        /\ \A i, j \in 1..Len(r.log) :
              (i < j /\ r.log[i].el = r.log[j].el) =>
                 /\ ~(r.log[i].kind = "upgraded" /\ r.log[j].kind = "failed")
                 /\ ~(r.log[i].kind = "failed" /\ r.log[j].kind = "upgraded")

\* What does hold of C14: between calls, a custom or failed element keeps
\* its state, and upgradeElement on it does nothing.
C14_SettledStateKeptAcrossCalls ==
  /\ \A e \in Nodes :
        (dom.nodeType[e] = "element" /\ CE_state[e] /= "undefined") =>
           upgradeElement(Store, e) = Store
  /\ \A r \in AllOutcomes :
        \A e \in Nodes : CE_state[e] /= "undefined" => r.CE_state[e] = CE_state[e]


\* The elements on which the user's constructor fails.
Failing == ctorThrows \cup ctorMismatch

\* An element upgradeElement would upgrade now: not yet upgraded, its name
\* defined, its document with a browsing context.
Eligible(e) ==
  /\ dom.nodeType[e] = "element"
  /\ CE_state[e] = "undefined"
  /\ hasDefinition(Store, dom.localName[e])
  /\ dom.defaultView[dom.ownerDocument[e]]

HasFailure(log) == \E i \in 1..Len(log) : log[i].kind = "failed"

\* C15: when an upgrade fails in a call of upgrade or connectTree, every
\* other eligible element of the walk is custom afterwards; when an upgrade
\* fails in a flush, every other element the flush was to upgrade for its
\* batch is custom afterwards.
C15_FailureDoesNotAbortSiblings ==
  /\ \A root \in TreeRoots :
        \A r \in {upgrade(Store, root), connectTree(Store, root)} :
           HasFailure(r.log) =>
              \A e \in Range(walkDeepDescendantElements(root, << >>, {}).elements) :
                 (Eligible(e) /\ e \notin Failing) => r.CE_state[e] = "custom"
  /\ \A r \in Outcomes : \A f \in 1..Len(r.log) :
        (r.log[f].kind = "flush" /\ HasFailure(r.log)) =>
           \A n \in Range(r.log[f].name) :
              \A e \in Candidates(DocumentOrder, r.log[f].state, n) \ Failing :
                 r.CE_state[e] = "custom"


\* define was called while a flush body was running: the flush callback was
\* invoked (by define) after a flush body had started in the same call.
DefinedDuringFlush(log) ==
  \E f, p \in 1..Len(log) :
     f < p /\ log[f].kind = "flush" /\ log[p].kind = "flushCallback"

\* C16: a call in which define was called while the flush body was running
\* ends without an internal error of the engine (the only errors that leave
\* it are the user's constructor's and define's own).
C16_ReentrantDefineDoesNotCrashFlush ==
  \A r \in AllOutcomes :
     DefinedDuringFlush(r.log) => r.exc /= "TypeError"

\* What does hold of C16: with the default flush callback, which runs the
\* flush body at once, no call ends with an internal error.
C16_NoCrashWithSynchronousCallback ==
  flushCallback = << >> => \A r \in AllOutcomes : r.exc /= "TypeError"


\* The names whose definition was stable when the flush body at position f
\* of r's log started: defined before the call or queued for a flush body
\* that started no later in it (a name defined in the call is queued at once
\* and stays queued until a flush body takes it), and not in the batch of
\* this one.
StableNames(r, f) ==
  ((DOMAIN Store.localNameToDefinition)
     \cup UNION {Range(r.log[g].name) : g \in {h \in 1..f : r.log[h].kind = "flush"}})
    \ Range(r.log[f].name)

\* The position after f at which e is first constructed, or 0.
FirstConstructed(log, f, e) ==
  IF \E p \in (f + 1)..Len(log) : Constructed(log, p, e)
  THEN CHOOSE p \in (f + 1)..Len(log) :
          Constructed(log, p, e) /\ \A q \in (f + 1)..(p - 1) : ~Constructed(log, q, e)
  ELSE 0

\* C17: in a flush body, every element it is to upgrade for the stable
\* definitions (in the document, not yet upgraded when it starts) is
\* constructed, those are constructed in document order, and each of them
\* before any element of a definition of its batch.
C17_EveryStableElementUpgradedFirst ==
  \A order \in {DocumentOrder} : \A r \in Outcomes : \A f \in 1..Len(r.log) :
     r.log[f].kind = "flush" =>
        \A stable \in {UNION {Candidates(order, r.log[f].state, n) : n \in StableNames(r, f)}} :
        \A pending \in {UNION {Candidates(order, r.log[f].state, n) :
                                 n \in Range(r.log[f].name)}} :
        \A first \in {[e \in stable \cup pending |-> FirstConstructed(r.log, f, e)]} :
           /\ \A e \in stable : first[e] /= 0
           /\ \A e2 \in pending : first[e2] /= 0 =>
                 \A e1 \in stable : first[e1] < first[e2]
           /\ \A e1, e2 \in stable :
                 Before(order, e1, e2) => first[e1] < first[e2]

\* What does hold of C17: in a flush body, no element of a definition of its
\* batch is constructed before every element it is to upgrade for the stable
\* definitions has been, those are constructed in document order, and when
\* the flush body runs to its end each of them is custom.
C17_StableBeforePending ==
  \A order \in {DocumentOrder} : \A r \in Outcomes : \A f \in 1..Len(r.log) :
     r.log[f].kind = "flush" =>
        \A stable \in {UNION {Candidates(order, r.log[f].state, n) : n \in StableNames(r, f)}} :
        \A pending \in {UNION {Candidates(order, r.log[f].state, n) :
                                 n \in Range(r.log[f].name)}} :
        \A first \in {[e \in stable \cup pending |-> FirstConstructed(r.log, f, e)]} :
           /\ \A e2 \in pending : first[e2] /= 0 =>
                 \A e1 \in stable : first[e1] /= 0 /\ first[e1] < first[e2]
           /\ \A e1, e2 \in stable :
                 (Before(order, e1, e2) /\ first[e2] /= 0) =>
                    first[e1] /= 0 /\ first[e1] < first[e2]
           /\ FlushCompleted(r.log, f) =>
                 \A e \in stable : first[e] /= 0 /\ r.CE_state[e] = "custom"


\* The reference sequence of a walk, by recursion on the child lists: the
\* elements of the subtree of node in pre-order, a host's shadow tree right
\* after the host, the content of an import link's import document right
\* after the link unless the document is in visited, nothing below a
\* template or an import link.  RefChildren is the same over the children
\* of a node from the i-th on.  Both give the sequence and the visited set
\* they leave.
RECURSIVE RefSubtree(_, _)
RECURSIVE RefChildren(_, _, _)
RefSubtree(node, visited) ==
  IF dom.nodeType[node] /= "element" THEN RefChildren(node, 1, visited)
  ELSE IF isImportLink(node)
  THEN IF dom.import[node] /= NoNode /\ dom.import[node] \notin visited
       THEN LET below == RefChildren(dom.import[node], 1, visited \cup {dom.import[node]})
            IN  [elements |-> << node >> \o below.elements,
                 visitedImports |-> below.visitedImports]
       ELSE [elements |-> << node >>, visitedImports |-> visited]
  ELSE IF dom.localName[node] = TEMPLATE
  THEN [elements |-> << node >>, visitedImports |-> visited]
  ELSE LET shadow == IF dom.shadowRoot[node] = NoNode
                     THEN [elements |-> << >>, visitedImports |-> visited]
                     ELSE RefChildren(dom.shadowRoot[node], 1, visited)
           light == RefChildren(node, 1, shadow.visitedImports)
       IN  [elements |-> << node >> \o shadow.elements \o light.elements,
            visitedImports |-> light.visitedImports]

RefChildren(parent, i, visited) ==
  IF i > Len(dom.children[parent])
  THEN [elements |-> << >>, visitedImports |-> visited]
  ELSE LET head == RefSubtree(dom.children[parent][i], visited)
           rest == RefChildren(parent, i + 1, head.visitedImports)
       IN  [elements |-> head.elements \o rest.elements,
            visitedImports |-> rest.visitedImports]

\* The nodes a walk can be rooted at, and the documents a visited set can
\* hold.
WalkRoots == {n \in Nodes : dom.nodeType[n] /= "absent"}
ImportDocuments == {dom.import[n] : n \in {l \in Nodes : isImportLink(l)}} \ {NoNode}

\* C18: for every root and every visited set, walkDeepDescendantElements
\* hands the callback exactly the reference sequence, in its order, each
\* element once, and leaves the visited set the reference leaves; no
\* element handed over is a sibling of the root or above it.
C18_WalkIsReferenceSequence ==
  \A anc \in {AncestorTable} : \A root \in WalkRoots : \A visited \in SUBSET ImportDocuments :
     \A walked \in {walkDeepDescendantElements(root, << >>, visited)} :
     \A ref \in {RefSubtree(root, visited)} :
        /\ walked.elements = ref.elements
        /\ walked.visitedImports = ref.visitedImports
        /\ \A i, j \in 1..Len(walked.elements) :
              walked.elements[i] = walked.elements[j] => i = j
        /\ \A i \in 1..Len(walked.elements) :
              /\ dom.nodeType[walked.elements[i]] = "element"
              /\ walked.elements[i] \notin anc[root]
              /\ walked.elements[i] /= root
                    => \/ parentNode(root) = NoNode
                       \/ parentNode(walked.elements[i]) /= parentNode(root)

\* Upgrade walks have reached the elements concerned: from a root above the
\* two links of a shared import the walk hands over the first link, then the
\* import's content, then the second link and right after it the second
\* link's next sibling, or from a root above a shadow host the host's shadow
\* tree comes right after the host; and a root that has a next sibling is
\* walked over an upgraded descendant.
C18_Witness ==
  /\ \E root \in WalkRoots :
     \E walked \in {walkDeepDescendantElements(root, << >>, {}).elements} :
        \/ \E i, j \in 1..(Len(walked) - 1) :
              /\ i + 1 < j
              /\ isImportLink(walked[i]) /\ isImportLink(walked[j])
              /\ dom.import[walked[i]] = dom.import[walked[j]]
              /\ dom.import[walked[i]] /= NoNode
              /\ CE_state[walked[i + 1]] = "custom"
              /\ walked[j + 1] = nextSibling(walked[j])
        \/ \E i \in 1..(Len(walked) - 1) :
              /\ dom.shadowRoot[walked[i]] /= NoNode
              /\ parentNode(walked[i + 1]) = dom.shadowRoot[walked[i]]
              /\ CE_state[walked[i + 1]] = "custom"
  /\ \E root \in {n \in WalkRoots : nextSibling(n) /= NoNode} :
     \E walked \in {walkDeepDescendantElements(root, << >>, {}).elements} :
        Len(walked) > 1 /\ CE_state[walked[Len(walked)]] = "custom"



\* The construction stacks of store r are those of the current state: every
\* definition of the current state has the stack it had, and a definition
\* the call added has an empty one.
StacksAsFound(r) ==
  \A n \in DOMAIN r.localNameToDefinition :
     r.localNameToDefinition[n].constructionStack =
        IF n \in DOMAIN localNameToDefinition
        THEN localNameToDefinition[n].constructionStack
        ELSE << >>

\* The constructor ran on e while an earlier invocation on e had not
\* returned: two constructions of e with no end of an upgrade of e between.
NestedConstruction(log, e) ==
  \E p, q \in 1..Len(log) :
     /\ p < q /\ Constructed(log, p, e) /\ Constructed(log, q, e)
     /\ \A m \in (p + 1)..(q - 1) :
           ~(log[m].el = e /\ log[m].kind \in {"upgraded", "failed"})

\* C19: upgradeElement on any element, and every call of the registry and
\* of the DOM patches (with the upgrades it runs, nested ones included, and
\* whether their constructors succeed, mismatch or throw), leaves every
\* definition's construction stack as it found it; between calls every
\* construction stack is empty.
C19_ConstructionStackRestored ==
  /\ \A n \in DOMAIN localNameToDefinition :
        localNameToDefinition[n].constructionStack = << >>
  /\ \A e \in Nodes : StacksAsFound(upgradeElement(Store, e))
  /\ \A r \in AllOutcomes : StacksAsFound(r)

\* A call ran an upgrade of an element from inside that element's own
\* constructor, an upgrade that succeeded and one whose constructor threw or
\* mismatched.
C19_Witness ==
  \E r \in AllOutcomes :
     /\ r.exc \in {"UserError", "ConstructorMismatch"}
     /\ \E e \in Nodes : NestedConstruction(r.log, e)
     /\ \E i, j \in 1..Len(r.log) :
           r.log[i].kind = "upgraded" /\ r.log[j].kind = "failed"
     /\ StacksAsFound(r)



Reactions == {"connectedCallback", "disconnectedCallback", "attributeChangedCallback"}

\* The call with log `log` ran a record of kind `kind` on element e.
Ran(log, kind, e) == \E i \in 1..Len(log) : log[i].kind = kind /\ log[i].el = e

\* What disconnectTree(root) does, walked being the elements of its walk:
\* it runs disconnectedCallback on the custom elements of the walk whose
\* definition has one, it runs nothing else, and it changes nothing.
DisconnectsOnlyCustom(r, walked) ==
  /\ r = [Store EXCEPT !.log = r.log]
  /\ \A i \in 1..Len(r.log) :
        /\ r.log[i].kind = "disconnectedCallback"
        /\ r.log[i].el \in walked
        /\ CE_state[r.log[i].el] = "custom"
  /\ \A e \in walked :
        (/\ CE_state[e] = "custom"
         /\ getDefinition(Store, CE_definition[e]).disconnectedCallback)
           => Ran(r.log, "disconnectedCallback", e)

\* No reaction of the call that left r ran on an element that was not
\* custom at that moment, and an element that was failed is left alone.
ReactionsOnlyOnCustom(r, walked) ==
  /\ \A i \in 1..Len(r.log) :
        r.log[i].kind \in Reactions => r.log[i].state = "custom"
  /\ \A e \in walked :
        CE_state[e] = "failed" =>
           r.CE_state[e] = "failed" /\ \A i \in 1..Len(r.log) : r.log[i].el /= e

\* C20: connectTree(root) runs connectedCallback on every element of its
\* walk that is custom (when its definition has one) and the constructor on
\* every element of its walk that upgradeElement would upgrade, and leaves
\* the failed ones alone; disconnectTree(root) runs disconnectedCallback on
\* the custom elements of its walk and nothing else, and changes no state;
\* neither runs a reaction on an element that is not custom.
C20_ConnectAndDisconnectEveryWalkedElement ==
  \A root \in TreeRoots :
  \A walked \in {Range(walkDeepDescendantElements(root, << >>, {}).elements)} :
     /\ \A r \in {connectTree(Store, root)} :
           /\ \A e \in walked :
                 (/\ CE_state[e] = "custom"
                  /\ getDefinition(Store, CE_definition[e]).connectedCallback)
                    => Ran(r.log, "connectedCallback", e)
           /\ \A e \in walked : Eligible(e) => Ran(r.log, "construct", e)
           /\ ReactionsOnlyOnCustom(r, walked)
     /\ \A r \in {disconnectTree(Store, root)} :
           DisconnectsOnlyCustom(r, walked)

\* What does hold of C20: the same, for connectTree up to the first upgrade
\* that fails; the loop ends there, and the elements of the walk after the
\* failed one get neither their connectedCallback nor an upgrade.
C20_ConnectAndDisconnectUntilFailure ==
  \A root \in TreeRoots :
  \A order \in {walkDeepDescendantElements(root, << >>, {}).elements} :
     /\ \A r \in {connectTree(Store, root)} :
           /\ \A e \in Range(order) :
                 (r.exc = "none" \/ \E bad \in Range(order) :
                                       r.CE_state[bad] = "failed" /\ CE_state[bad] /= "failed"
                                       /\ Before(order, e, bad))
                    => /\ (/\ CE_state[e] = "custom"
                           /\ getDefinition(Store, CE_definition[e]).connectedCallback)
                             => Ran(r.log, "connectedCallback", e)
                       /\ Eligible(e) => Ran(r.log, "construct", e)
           /\ ReactionsOnlyOnCustom(r, Range(order))
     /\ \A r \in {disconnectTree(Store, root)} :
           DisconnectsOnlyCustom(r, Range(order))



\* The elements that carry a definition (__CE_definition is set).
WithDefinition == {e \in Nodes : CE_definition[e] /= Undefined}

\* What define read off the constructor of the definition element e
\* carries: its observedAttributes and whether its prototype has the
\* callback cb.
ObservedAtDefine(e) ==
  CtorInfo(getDefinition(Store, CE_definition[e]).constructorFunction).observedAttributes

CallbackAtDefine(e, cb) ==
  CtorInfo(getDefinition(Store, CE_definition[e]).constructorFunction).prototype[cb] = "function"

\* The call that left r ran exactly one record, of kind `kind` on e with
\* name `name`, and changed nothing else.
RanOnly(r, kind, e, name) ==
  /\ Len(r.log) = 1
  /\ r.log[1].kind = kind /\ r.log[1].el = e /\ r.log[1].name = name
  /\ r = [Store EXCEPT !.log = r.log]

\* C21: on an element that carries a definition, the dispatcher's
\* attributeChangedCallback(element, name) runs the callback when name is in
\* the observedAttributes define read and the prototype had the callback,
\* and is a no-op otherwise; connectedCallback and disconnectedCallback run
\* the callback when the prototype had it and are a no-op otherwise; and no
\* call of the registry or the DOM patches runs a reaction the definition
\* lacks or an attribute reaction for a name outside the list.
C21_ReactionsGatedByDefinition ==
  /\ \A e \in WithDefinition :
        /\ \A name \in AttrNames :
              \A r \in {attributeChangedCallback(Store, e, name)} :
                 IF CallbackAtDefine(e, "attributeChangedCallback")
                    /\ name \in Range(ObservedAtDefine(e))
                 THEN RanOnly(r, "attributeChangedCallback", e, name)
                 ELSE r = Store
        /\ \A r \in {connectedCallback(Store, e)} :
              IF CallbackAtDefine(e, "connectedCallback")
              THEN RanOnly(r, "connectedCallback", e, Undefined)
              ELSE r = Store
        /\ \A r \in {disconnectedCallback(Store, e)} :
              IF CallbackAtDefine(e, "disconnectedCallback")
              THEN RanOnly(r, "disconnectedCallback", e, Undefined)
              ELSE r = Store
  /\ \A r \in AllOutcomes : \A i \in 1..Len(r.log) :
        r.log[i].kind \in Reactions =>
           \A d \in {CtorInfo(getDefinition(r, r.CE_definition[r.log[i].el]).constructorFunction)} :
              /\ d.prototype[r.log[i].kind] = "function"
              /\ r.log[i].kind = "attributeChangedCallback"
                    => r.log[i].name \in Range(d.observedAttributes)

\* An element carries a definition with the attribute callback and has an
\* attribute outside its observed list, and another carries a definition
\* with a non-empty observed list and no callback at all.
C21_Witness ==
  /\ \E e \in WithDefinition : \E name \in dom.attrs[e] :
        /\ CallbackAtDefine(e, "attributeChangedCallback")
        /\ name \notin Range(ObservedAtDefine(e))
        /\ \E other \in dom.attrs[e] : other \in Range(ObservedAtDefine(e))
  /\ \E e \in WithDefinition :
        /\ ObservedAtDefine(e) /= << >>
        /\ \A cb \in CallbackNames : ~CallbackAtDefine(e, cb)



\* The store as define has it while it reads the callbacks off its
\* constructor (the flag was set at line 63).
MidRegistration == [Store EXCEPT !.elementDefinitionIsRunning = TRUE]

\* The records of the defines a prototype getter made during a call.
GetterDefines(log) == {i \in 1..Len(log) : log[i].kind = "getterDefine"}

\* C22: a define made while another define reads its callbacks (one that
\* passes the checks that come first: a function, a valid name not yet
\* defined) throws the already-being-defined error and changes nothing, and
\* the define that was running then registers its own constructor; the flag
\* is clear in every state between calls and when any call ends, by return
\* or by throw; and the define after any call is not refused as re-entrant.
C22_ReentrantDefineRejected ==
  /\ elementDefinitionIsRunning = FALSE
  /\ \A input \in DefineInputs :
        (/\ IsFunction(input[2])
         /\ SatisfiesGrammar(input[1])
         /\ get(Store, input[1]) = "undefined")
           => \A r \in {define(MidRegistration, input[1], input[2])} :
                 /\ r.exc = "AlreadyBeingDefined"
                 /\ r = [MidRegistration EXCEPT !.exc = r.exc]
  /\ \A r \in AllOutcomes :
        /\ r.elementDefinitionIsRunning = FALSE
        /\ \A i \in GetterDefines(r.log) : r.log[i].name = "AlreadyBeingDefined"
        /\ \A input \in DefineInputs :
              define([r EXCEPT !.log = << >>, !.exc = "none"], input[1], input[2]).exc
                 /= "AlreadyBeingDefined"
  /\ \A input \in DefineInputs :
        \A r \in {define(Store, input[1], input[2])} :
           (GetterDefines(r.log) /= {} /\ r.exc = "none")
              => /\ get(r, input[1]) = input[2]
                 /\ DOMAIN r.localNameToDefinition
                       = DOMAIN localNameToDefinition \cup {input[1]}

\* A define whose prototype getter calls define has been through: it is
\* registered with its own constructor, and a call from this state ends
\* with a throw.
C22_Witness ==
  /\ \E n \in DOMAIN localNameToDefinition :
        CtorInfo(localNameToDefinition[n].constructorFunction).getterDefines /= Undefined
  /\ \E r \in AllOutcomes : r.exc /= "none" /\ r.elementDefinitionIsRunning = FALSE



\* The outcomes of the calls that patch, from the current state: patchElement
\* on any element, patchTree, and the calls that run patchAndUpgradeTree
\* (upgrade; define through its flush).
PatchingOutcomes ==
  {patchElement(Store, e) : e \in {n \in Nodes : dom.nodeType[n] = "element"}}
  \cup {patchTree(Store, root) : root \in TreeRoots}
  \cup {upgrade(Store, root) : root \in UpgradeRoots}
  \cup {define(Store, input[1], input[2]) : input \in PatchingDefineInputs}

\* C23: a call applies the patches to an element only when patches are
\* registered and the element's patched flag is clear, at most once in the
\* call, and sets the flag; the flag is set by nothing else and no call
\* clears it (so over any sequence of calls an element is patched at most
\* once); patchElement on a patched element does nothing; and when patches
\* are registered, patchAndUpgradeTree runs the constructor only on an
\* element that is patched by then.
C23_PatchedAtMostOnce ==
  /\ \A e \in Nodes : CE_patched[e] => patchElement(Store, e) = Store
  /\ \A r \in PatchingOutcomes :
        /\ \A e \in Nodes :
              /\ CE_patched[e] => r.CE_patched[e]
              /\ (r.CE_patched[e] /\ ~CE_patched[e]) => Ran(r.log, "patch", e)
        /\ \A i \in 1..Len(r.log) :
              r.log[i].kind = "patch" =>
                 /\ hasPatches
                 /\ ~CE_patched[r.log[i].el]
                 /\ r.CE_patched[r.log[i].el]
                 /\ \A j \in 1..Len(r.log) :
                       (r.log[j].kind = "patch" /\ r.log[j].el = r.log[i].el) => j = i
        /\ \A p \in 1..Len(r.log) :
              (r.log[p].kind = "construct" /\ hasPatches) =>
                 \/ CE_patched[r.log[p].el]
                 \/ \E q \in 1..(p - 1) :
                       r.log[q].kind = "patch" /\ r.log[q].el = r.log[p].el

\* Patches are registered, an element of the document was patched by an
\* earlier call and is not upgraded yet, and a call that runs
\* patchAndUpgradeTree patches and then upgrades another element and
\* upgrades the first without patching it again.
C23_Witness ==
  /\ hasPatches
  /\ \E r \in PatchingOutcomes : \E e1, e2 \in Nodes :
        /\ CE_patched[e2] /\ CE_state[e2] = "undefined"
        /\ ~CE_patched[e1]
        /\ Ran(r.log, "patch", e1) /\ Ran(r.log, "construct", e1)
        /\ ~Ran(r.log, "patch", e2) /\ Ran(r.log, "construct", e2)



\* C24: for every defined name n the constructor index maps the constructor
\* of n's definition back to n's definition, and every entry of the
\* constructor index is the definition the name index holds under that
\* definition's name, with the entry's constructor.
C24_IndexesOneToOne ==
  /\ \A n \in DOMAIN localNameToDefinition :
        /\ localNameToDefinition[n].constructorFunction \in DOMAIN constructorToDefinition
        /\ constructorToDefinition[localNameToDefinition[n].constructorFunction] = n
  /\ \A c \in DOMAIN constructorToDefinition :
        /\ constructorToDefinition[c] \in DOMAIN localNameToDefinition
        /\ localNameToDefinition[constructorToDefinition[c]].constructorFunction = c

\* What does hold of C24: every entry of the constructor index is a
\* definition of the name index, held there under its own name and with the
\* entry's constructor; every registered constructor has an entry; a name
\* index entry is never replaced.
C24_ConstructorIndexPointsIntoNameIndex ==
  /\ \A c \in DOMAIN constructorToDefinition :
        /\ constructorToDefinition[c] \in DOMAIN localNameToDefinition
        /\ localNameToDefinition[constructorToDefinition[c]].constructorFunction = c
  /\ \A n \in DOMAIN localNameToDefinition :
        /\ localNameToDefinition[n].localName = n
        /\ localNameToDefinition[n].constructorFunction \in DOMAIN constructorToDefinition
  /\ \A input \in SharingDefineInputs :
        \A r \in {define(Store, input[1], input[2])} :
           \A n \in DOMAIN localNameToDefinition :
              /\ n \in DOMAIN r.localNameToDefinition
              /\ r.localNameToDefinition[n].constructorFunction
                    = localNameToDefinition[n].constructorFunction



\* No definition is stranded in store s: a non-empty queue has a flush
\* pending.
NoneStranded(s) == s.pendingDefinitions /= << >> => s.flushPending

\* C25: between calls a non-empty pending queue has a flush pending, and the
\* flush function called while no flush is pending changes nothing.
C25_NoDefinitionStranded ==
  /\ NoneStranded(Store)
  /\ ~flushPending => flush(Store) = Store

\* What does hold of C25: the flush function called while no flush is
\* pending changes nothing, and a call that starts with no definition
\* stranded and ends without a throw leaves none stranded.
C25_NoneStrandedWithoutThrow ==
  /\ ~flushPending => flush(Store) = Store
  /\ \A r \in AllOutcomes :
        (NoneStranded(Store) /\ r.exc = "none") => NoneStranded(r)



\* How often the call with log `log` ran the constructor on e.
Constructions(log, e) == Cardinality({p \in 1..Len(log) : Constructed(log, p, e)})

\* C26: no call of the registry or of the DOM patches runs the constructor
\* on an element more than once, nor on an element that has been through an
\* upgrade before the call (so over any sequence of calls the constructor
\* runs at most once per element).
C26_ConstructorRunsAtMostOnce ==
  \A r \in AllOutcomes : \A e \in Nodes :
     /\ Constructions(r.log, e) <= 1
     /\ CE_state[e] /= "undefined" => Constructions(r.log, e) = 0

\* What does hold of C26: the constructor never runs on an element once an
\* upgrade of it has ended, in an earlier call or in this one; every second
\* run on an element starts while the first has not returned.
C26_NoConstructionAfterUpgradeEnded ==
  \A r \in AllOutcomes : \A e \in Nodes :
     /\ CE_state[e] /= "undefined" => Constructions(r.log, e) = 0
     /\ \A m, q \in 1..Len(r.log) :
           (m < q /\ r.log[m].el = e /\ r.log[m].kind \in {"upgraded", "failed"})
              => ~Constructed(r.log, q, e)

=============================================================================
